---- MODULE Spec2Model ----
(***************************************************************************)
(* Model of ouroboros_macro (src/ouroboros_macro/src/lib.rs): the          *)
(* #[self_referencing] macro as a state machine that reads the fields of  *)
(* the input struct one by one, scans each borrows(...) attribute one     *)
(* token at a time, validates and classifies, lays the fields out and     *)
(* synthesizes the constructors and accessors; followed by the execution  *)
(* of the generated constructors, statement by statement.                 *)
(*                                                                         *)
(* Sequences are 1-based: the field at Rust index i is field_info[i+1].   *)
(* A missing position (Rust None) is 0.                                   *)
(* A field carries at most one borrows attribute (the code handles the    *)
(* first one and leaves the loop, lib.rs:266-270).  Field names are       *)
(* distinct identifiers other than `this`.                                *)
(***************************************************************************)
EXTENDS Integers, Sequences, FiniteSets, TLC

\* ------------------------------------------------------------------ bounds
MaxFields == 3      \* fields of the input struct
MaxBorrows == 3     \* borrow requests in the whole struct
MaxVal == 2         \* values a head argument or a callback result ranges over

Names == <<"a", "b", "c", "d", "e", "f">>
FieldNames == {Names[i] : i \in 1..MaxFields}
\* identifiers a borrows(...) list may hold: every name a field of the struct
\* may carry (declared already or not) and one that no field carries
IdentTexts == FieldNames \cup {"zz"}
\* the declared type of the field called n; every declared type may mention
\* the lifetime 'this
TypeOf(n) == [of |-> n, lifetime |-> "this"]
Values == 1..MaxVal
Errors == {"E1", "E2"}
\* contents left behind by a callback that writes through a mutable reference
Written == MaxVal + 1

Tokens ==
    {[kind |-> "Ident", text |-> t] : t \in IdentTexts \cup {"mut"}}
    \cup {[kind |-> "Punct", text |-> ","], [kind |-> "Punct", text |-> ";"],
          [kind |-> "Other", text |-> "0"]}

\* ------------------------------------------------------------------ state
VARIABLES
    pc,                 \* position in self_referencing / create_actual_struct
    field_info,         \* Vec<StructFieldInfo>
    borrows,            \* the borrows Vec of the field being read
    borrow_mut,         \* handle_borrows_attr: a `mut` is pending
    waiting_for_comma,  \* handle_borrows_attr: last token was a field name
    token,              \* the token handle_borrows_attr read last
    panic,              \* the panic that aborted the expansion, if any
    actual_fields,      \* actual_struct_def.fields.named
    constructor_def,    \* generated `new`
    try_constructor_def,\* generated `try_new` and `try_new_or_recover`
    users,              \* generated use_* functions
    use_all,            \* generated BorrowedFields / BorrowedMutFields
    into_heads_fn,      \* generated Heads struct and into_heads
    output,             \* TRUE once the macro has returned its TokenStream
    call,               \* the generated constructor being run, or "none"
    ip,                 \* next statement of its body
    args,               \* head values the caller passed
    locals,             \* its bound variables, by field name
    refs,               \* its <name>_illegal_static_reference variables
    invoked,            \* builders called so far, in order
    cb,                 \* what the last builder returned
    ret,                \* what the constructor returned
    via,                \* how it was called: "direct" or the build function
    given,              \* head values the caller supplied, by field name
    builders,           \* the callbacks its builder parameters are bound to
    called,             \* the callbacks invoked so far, in order
    hip,                \* next statement of into_heads, 0 before it is called
    aggregate,          \* into_heads: what became of each field of self
    heads_locals,       \* into_heads: its bound variables, by field name
    teardown,           \* into_heads: the fields dropped or moved out, in order
    heads_ret           \* what into_heads returned

genVars == <<pc, field_info, borrows, borrow_mut, waiting_for_comma,
             token, panic, actual_fields, constructor_def,
             try_constructor_def, users, use_all, into_heads_fn, output>>
headsVars == <<hip, aggregate, heads_locals, teardown, heads_ret>>
ctorVars == <<call, ip, args, locals, refs, invoked, cb, ret,
              via, given, builders, called>>
runVars == <<call, ip, args, locals, refs, invoked, cb, ret,
             via, given, builders, called,
             hip, aggregate, heads_locals, teardown, heads_ret>>
vars == <<pc, field_info, borrows, borrow_mut, waiting_for_comma,
          token, panic, actual_fields, constructor_def,
          try_constructor_def, users, use_all, into_heads_fn, output,
          call, ip, args, locals, refs, invoked, cb, ret,
          via, given, builders, called,
          hip, aggregate, heads_locals, teardown, heads_ret>>

\* ------------------------------------------------------------- data types
NoPanic == [msg |-> "none", arg |-> ""]
Panic(m, a) == [msg |-> m, arg |-> a]

BorrowRequest(i, m) == [index |-> i, mutable |-> m]

StructFieldInfo(n, t, ft, bs) ==
    [name |-> n, typ |-> t, field_type |-> ft, borrows |-> bs]

is_tail(ft) == ft = "Tail"

builder_name(f) == [base |-> f.name, suffix |-> "_builder"]

illegal_ref_name(f) == [base |-> f.name, suffix |-> "_illegal_static_reference"]

\* let <ref_name> = stable_deref_and_strip_lifetime(&<field_name>)
make_illegal_static_reference(f) ==
    [op |-> "ref", field |-> f.name, ref |-> illegal_ref_name(f), mutable |-> FALSE]

make_illegal_static_mut_reference(f) ==
    [op |-> "ref", field |-> f.name, ref |-> illegal_ref_name(f), mutable |-> TRUE]

\* ----------------------------------------------------- handle_borrows_attr
\* mutant of Position: a name that is not found resolves to the last field
PositionOrLast(fi, istr) ==
    IF \E i \in 1..Len(fi) : fi[i].name = istr
    THEN CHOOSE i \in 1..Len(fi) :
            fi[i].name = istr /\ \A j \in 1..(i - 1) : fi[j].name # istr
    ELSE Len(fi)

\* field_info.iter().position(|item| item.name == istr); 0 for None
Position(fi, istr) ==
    IF \E i \in 1..Len(fi) : fi[i].name = istr
    THEN CHOOSE i \in 1..Len(fi) :
            fi[i].name = istr /\ \A j \in 1..(i - 1) : fi[j].name # istr
    ELSE 0

Scan(p, fi, bs, bm, wfc) ==
    [panic |-> p, field_info |-> fi, borrows |-> bs, borrow_mut |-> bm,
     waiting_for_comma |-> wfc]

\* mutant of SetFieldType: the role is assigned to every field read so far
SetFieldTypeOfAll(fi, index, ft) ==
    [i \in 1..Len(fi) |-> [fi[i] EXCEPT !.field_type = ft]]

\* field_info[index].field_type = ft: lib.rs:211 and 219
SetFieldType(fi, index, ft) == [fi EXCEPT ![index].field_type = ft]

\* mutant of HandleName: lib.rs:213-218 is missing
HandleNameNoMutCheck(fi, bs, bm, wfc, istr) ==
    LET index == Position(fi, istr) IN
    IF index = 0 THEN Scan(Panic("UnknownIdentifier", istr), fi, bs, bm, wfc)
    ELSE IF bm
    THEN IF fi[index].field_type = "Borrowed"
         THEN Scan(Panic("PreviouslyBorrowedImmutably", istr), fi, bs, bm, wfc)
         ELSE IF fi[index].field_type = "BorrowedMut"
         THEN Scan(Panic("MutablyMoreThanOnce", istr), fi, bs, bm, wfc)
         ELSE Scan(NoPanic, SetFieldType(fi, index, "BorrowedMut"),
                   Append(bs, BorrowRequest(index, bm)), FALSE, TRUE)
    ELSE Scan(NoPanic, SetFieldType(fi, index, "Borrowed"),
              Append(bs, BorrowRequest(index, bm)), FALSE, TRUE)

\* mutant of HandleName: lib.rs:202-207 is missing
HandleNameNoImmCheck(fi, bs, bm, wfc, istr) ==
    LET index == Position(fi, istr) IN
    IF index = 0 THEN Scan(Panic("UnknownIdentifier", istr), fi, bs, bm, wfc)
    ELSE IF bm
    THEN IF fi[index].field_type = "BorrowedMut"
         THEN Scan(Panic("MutablyMoreThanOnce", istr), fi, bs, bm, wfc)
         ELSE Scan(NoPanic, SetFieldType(fi, index, "BorrowedMut"),
                   Append(bs, BorrowRequest(index, bm)), FALSE, TRUE)
    ELSE IF fi[index].field_type = "BorrowedMut"
         THEN Scan(Panic("PreviouslyBorrowedMutably", istr), fi, bs, bm, wfc)
         ELSE Scan(NoPanic, SetFieldType(fi, index, "Borrowed"),
                   Append(bs, BorrowRequest(index, bm)), FALSE, TRUE)

\* mutant of HandleName: the messages of lib.rs:203-206 and 209 are exchanged
HandleNameMessagesExchanged(fi, bs, bm, wfc, istr) ==
    LET index == Position(fi, istr) IN
    IF index = 0 THEN Scan(Panic("UnknownIdentifier", istr), fi, bs, bm, wfc)
    ELSE IF bm
    THEN IF fi[index].field_type = "Borrowed"
         THEN Scan(Panic("MutablyMoreThanOnce", istr), fi, bs, bm, wfc)
         ELSE IF fi[index].field_type = "BorrowedMut"
         THEN Scan(Panic("PreviouslyBorrowedImmutably", istr), fi, bs, bm, wfc)
         ELSE Scan(NoPanic, SetFieldType(fi, index, "BorrowedMut"),
                   Append(bs, BorrowRequest(index, bm)), FALSE, TRUE)
    ELSE IF fi[index].field_type = "BorrowedMut"
         THEN Scan(Panic("PreviouslyBorrowedMutably", istr), fi, bs, bm, wfc)
         ELSE Scan(NoPanic, SetFieldType(fi, index, "Borrowed"),
                   Append(bs, BorrowRequest(index, bm)), FALSE, TRUE)

\* mutant of HandleName: lib.rs:202-210 and 213-218 are missing
HandleNameNoRoleChecks(fi, bs, bm, wfc, istr) ==
    LET index == Position(fi, istr) IN
    IF index = 0 THEN Scan(Panic("UnknownIdentifier", istr), fi, bs, bm, wfc)
    ELSE IF bm
    THEN Scan(NoPanic, SetFieldType(fi, index, "BorrowedMut"),
              Append(bs, BorrowRequest(index, bm)), FALSE, TRUE)
    ELSE Scan(NoPanic, SetFieldType(fi, index, "Borrowed"),
              Append(bs, BorrowRequest(index, bm)), FALSE, TRUE)

\* mutant of HandleName: lib.rs:226 is missing
HandleNameKeepsMut(fi, bs, bm, wfc, istr) ==
    LET index == Position(fi, istr) IN
    IF index = 0 THEN Scan(Panic("UnknownIdentifier", istr), fi, bs, bm, wfc)
    ELSE IF bm
    THEN IF fi[index].field_type = "Borrowed"
         THEN Scan(Panic("PreviouslyBorrowedImmutably", istr), fi, bs, bm, wfc)
         ELSE IF fi[index].field_type = "BorrowedMut"
         THEN Scan(Panic("MutablyMoreThanOnce", istr), fi, bs, bm, wfc)
         ELSE Scan(NoPanic, SetFieldType(fi, index, "BorrowedMut"),
                   Append(bs, BorrowRequest(index, bm)), bm, TRUE)
    ELSE IF fi[index].field_type = "BorrowedMut"
         THEN Scan(Panic("PreviouslyBorrowedMutably", istr), fi, bs, bm, wfc)
         ELSE Scan(NoPanic, SetFieldType(fi, index, "Borrowed"),
                   Append(bs, BorrowRequest(index, bm)), bm, TRUE)

\* a field name in the list: lib.rs:189-226
HandleName(fi, bs, bm, wfc, istr) ==
    LET index == Position(fi, istr) IN
    IF index = 0 THEN Scan(Panic("UnknownIdentifier", istr), fi, bs, bm, wfc)
    ELSE IF bm
    THEN IF fi[index].field_type = "Borrowed"
         THEN Scan(Panic("PreviouslyBorrowedImmutably", istr), fi, bs, bm, wfc)
         ELSE IF fi[index].field_type = "BorrowedMut"
         THEN Scan(Panic("MutablyMoreThanOnce", istr), fi, bs, bm, wfc)
         ELSE Scan(NoPanic, SetFieldType(fi, index, "BorrowedMut"),
                   Append(bs, BorrowRequest(index, bm)), FALSE, TRUE)
    ELSE IF fi[index].field_type = "BorrowedMut"
         THEN Scan(Panic("PreviouslyBorrowedMutably", istr), fi, bs, bm, wfc)
         ELSE Scan(NoPanic, SetFieldType(fi, index, "Borrowed"),
                   Append(bs, BorrowRequest(index, bm)), FALSE, TRUE)

\* one iteration of `for token in tokens`: lib.rs:177-244
ScanToken(fi, bs, bm, wfc, tok) ==
    IF tok.kind = "Ident"
    THEN IF wfc
         THEN Scan(Panic("ExpectedComma", tok.text), fi, bs, bm, wfc)
         ELSE IF tok.text = "mut"
         THEN IF bm
              THEN Scan(Panic("DoubleMut", ""), fi, bs, bm, wfc)
              ELSE Scan(NoPanic, fi, bs, TRUE, wfc)
         ELSE HandleName(fi, bs, bm, wfc, tok.text)
    ELSE IF tok.kind = "Punct"
    THEN IF tok.text = ","
         THEN IF wfc
              THEN Scan(NoPanic, fi, bs, bm, FALSE)
              ELSE Scan(Panic("ExtraComma", ""), fi, bs, bm, wfc)
         ELSE Scan(Panic("UnexpectedPunctuation", tok.text), fi, bs, bm, wfc)
    ELSE Scan(Panic("UnexpectedToken", tok.text), fi, bs, bm, wfc)

\* handle_borrows_attr on a well-formed list `[mut] name, [mut] name, ...`:
\* lib.rs:177-244 for each request in turn, stopping at the first panic
RECURSIVE HandleRequests(_, _, _)
HandleRequests(fi, bs, requests) ==
    IF requests = <<>> THEN Scan(NoPanic, fi, bs, FALSE, FALSE)
    ELSE LET r == HandleName(fi, bs, Head(requests).mutable, FALSE,
                             Head(requests).name)
         IN  IF r.panic # NoPanic THEN r
             ELSE HandleRequests(r.field_info, r.borrows, Tail(requests))

\* the loop of create_actual_struct, lib.rs:256-279, over a whole field list
\* whose i-th entry is the request list of the i-th field
RECURSIVE Collect(_, _)
Collect(fi, lists) ==
    IF lists = <<>> THEN [panic |-> NoPanic, field_info |-> fi]
    ELSE LET r == HandleRequests(fi, <<>>, Head(lists))
             n == Names[Len(fi) + 1]
         IN  IF r.panic # NoPanic
             THEN [panic |-> r.panic, field_info |-> r.field_info]
             ELSE Collect(Append(r.field_info,
                                 StructFieldInfo(n, TypeOf(n), "Tail", r.borrows)),
                          Tail(lists))

\* --------------------------------------------------------- layout helpers
\* mutant of Reversed: the fields are not reversed
NotReversed(s) == s

\* mutant of Reversed: the first declared field is lost
ReversedOffByOne(s) == [i \in 1..(Len(s) - 1) |-> s[Len(s) + 1 - i]]

\* fields.named.iter().rev().cloned().collect()
Reversed(s) == [i \in 1..Len(s) |-> s[Len(s) + 1 - i]]

\* replace_this_with_static on a declared type
ReplaceThisWithStatic(t) ==
    IF t.lifetime = "this" THEN [t EXCEPT !.lifetime = "static"] ELSE t

\* mutant of TooFewFields: one field is enough
TooFewFieldsNone(fi) == Len(fi) < 1

\* lib.rs:284
TooFewFields(fi) == Len(fi) < 2

\* mutant of HasNonTail: only the first field is tested
HasNonTailFirst(fi) == Len(fi) > 0 /\ ~is_tail(fi[1].field_type)

\* mutant of HasNonTail: the test is missing
HasNonTailAlways(fi) == TRUE

\* lib.rs:287-293
HasNonTail(fi) == \E i \in 1..Len(fi) : ~is_tail(fi[i].field_type)

Ident(b, s) == [base |-> b, suffix |-> s]

\* --------------------------------------------------- constructor synthesis
\* mutant of make_constructor_arg_type_impl: every parameter of the builder
\* is a shared reference
make_constructor_arg_type_implShared(for_field, other_fields, return_type) ==
    IF Len(for_field.borrows) = 0
    THEN [kind |-> "Plain", typ |-> for_field.typ, trait |-> "none",
          params |-> <<>>, ret |-> "none"]
    ELSE [kind |-> "TraitBound", typ |-> for_field.typ, trait |-> "FnOnce",
          params |-> [k \in 1..Len(for_field.borrows) |->
                        [mutable |-> FALSE,
                         deref_of |-> other_fields[for_field.borrows[k].index].typ]],
          ret |-> return_type]

\* lib.rs:90-119: Plain(#field_type), or the bound
\* for<'this> FnOnce(&'this [mut] <T as Deref>::Target, ...) -> #return_type
make_constructor_arg_type_impl(for_field, other_fields, return_type) ==
    IF Len(for_field.borrows) = 0
    THEN [kind |-> "Plain", typ |-> for_field.typ, trait |-> "none",
          params |-> <<>>, ret |-> "none"]
    ELSE [kind |-> "TraitBound", typ |-> for_field.typ, trait |-> "FnOnce",
          params |-> [k \in 1..Len(for_field.borrows) |->
                        [mutable |-> for_field.borrows[k].mutable,
                         deref_of |-> other_fields[for_field.borrows[k].index].typ]],
          ret |-> return_type]

make_constructor_arg_type(for_field, other_fields) ==
    make_constructor_arg_type_impl(for_field, other_fields, "Value")

make_try_constructor_arg_type(for_field, other_fields) ==
    make_constructor_arg_type_impl(for_field, other_fields, "Result")

\* mutant of HeadFieldNames: a head that is borrowed mutably is left out
HeadFieldNamesNotMut(fi) ==
    LET heads == SelectSeq(fi, LAMBDA f : Len(f.borrows) = 0
                                          /\ f.field_type # "BorrowedMut")
    IN  [k \in 1..Len(heads) |-> heads[k].name]

\* mutant of HeadFieldNames: the last head is left out
HeadFieldNamesButLast(fi) ==
    LET heads == SelectSeq(fi, LAMBDA f : Len(f.borrows) = 0)
    IN  [k \in 1..(Len(heads) - 1) |-> heads[k].name]

\* lib.rs:484-489
HeadFieldNames(fi) ==
    LET heads == SelectSeq(fi, LAMBDA f : Len(f.borrows) = 0)
    IN  [k \in 1..Len(heads) |-> heads[k].name]

\* the parameter pushed for one field: lib.rs:388-407 and 553-572
Param(field, arg_type) ==
    IF arg_type.kind = "Plain"
    THEN [name |-> Ident(field.name, ""), field |-> field.name,
          mutable |-> field.field_type = "BorrowedMut", arg |-> arg_type]
    ELSE [name |-> builder_name(field), field |-> field.name,
          mutable |-> FALSE, arg |-> arg_type]

\* builder_args: lib.rs:415-418 and 580-583
BuilderArgs(field, fi) ==
    [k \in 1..Len(field.borrows) |->
        Ident(fi[field.borrows[k].index].name, "_illegal_static_reference")]

\* the statement that calls the builder of one field: lib.rs:429-434 (new),
\* 600 (try_new, `?`) and 601-607 (try_new_or_recover, match)
CallStatement(field, fi, onerr, heads) ==
    [op |-> "call", field |-> field.name,
     mutable |-> field.field_type = "BorrowedMut",
     builder |-> builder_name(field),
     builder_args |-> BuilderArgs(field, fi),
     onerr |-> onerr, heads |-> heads]

\* mutant of RefStatements: no reference to a field that is borrowed mutably
RefStatementsNoMut(field) ==
    IF field.field_type = "Borrowed"
    THEN <<make_illegal_static_reference(field)>>
    ELSE <<>>

\* mutant of RefStatements: every field that is borrowed gets a mutable
\* reference
RefStatementsAllMut(field) ==
    IF field.field_type # "Tail"
    THEN <<make_illegal_static_mut_reference(field)>>
    ELSE <<>>

\* lib.rs:444-448 and 617-623
RefStatements(field) ==
    IF field.field_type = "Borrowed"
    THEN <<make_illegal_static_reference(field)>>
    ELSE IF field.field_type = "BorrowedMut"
    THEN <<make_illegal_static_mut_reference(field)>>
    ELSE <<>>

\* mutant of FieldCode: the statement that calls the builder is pushed twice
FieldCodeCallTwice(field, fi, arg_type, onerr, heads) ==
    (IF arg_type.kind = "TraitBound"
     THEN <<CallStatement(field, fi, onerr, heads),
            CallStatement(field, fi, onerr, heads)>>
     ELSE <<>>)
    \o RefStatements(field)

\* the statements one iteration of `for field in field_info` pushes
FieldCode(field, fi, arg_type, onerr, heads) ==
    (IF arg_type.kind = "TraitBound"
     THEN <<CallStatement(field, fi, onerr, heads)>>
     ELSE <<>>)
    \o RefStatements(field)

RECURSIVE Code(_, _, _, _)
Code(fi, n, onerr, heads) ==
    IF n = 0 THEN <<>>
    ELSE Code(fi, n - 1, onerr, heads)
         \o FieldCode(fi[n], fi,
                      IF onerr = "none"
                      THEN make_constructor_arg_type(fi[n], fi)
                      ELSE make_try_constructor_arg_type(fi[n], fi),
                      onerr, heads)

\* the field pushed to builder_struct_fields for one field: lib.rs:396 and
\* 438-440 (561 and 611-613); a callback field has a generic type with the
\* bound of the constructor's parameter
BuilderStructField(field, arg_type) ==
    IF arg_type.kind = "Plain"
    THEN [name |-> Ident(field.name, ""), arg |-> arg_type]
    ELSE [name |-> builder_name(field), arg |-> arg_type]

\* the name pushed to builder_struct_field_names: lib.rs:397 and 441 (562
\* and 614)
BuilderStructFieldName(field, arg_type) ==
    IF arg_type.kind = "Plain"
    THEN Ident(field.name, "")
    ELSE builder_name(field)

\* lib.rs:467-471: build(self) calls new
BuildFns == <<[name |-> "build", calls |-> "new"]>>

\* mutant of TryBuildFns: both build functions call try_new
TryBuildFnsBothStrict ==
    <<[name |-> "try_build", calls |-> "try_new"],
      [name |-> "try_build_or_recover", calls |-> "try_new"]>>

\* lib.rs:650-660: try_build(self) calls try_new, try_build_or_recover(self)
\* calls try_new_or_recover
TryBuildFns ==
    <<[name |-> "try_build", calls |-> "try_new"],
      [name |-> "try_build_or_recover", calls |-> "try_new_or_recover"]>>

NoConstructor ==
    [params |-> <<>>, code |-> <<>>, or_recover_code |-> <<>>,
     field_names |-> <<>>, builder_struct_fields |-> <<>>,
     builder_struct_field_names |-> <<>>, build_fns |-> <<>>]

\* lib.rs:339-475
create_builder_and_constructor(fi) ==
    LET params == [i \in 1..Len(fi) |->
                     Param(fi[i], make_constructor_arg_type(fi[i], fi))]
    IN  [params |-> params,
         code |-> Code(fi, Len(fi), "none", <<>>),
         or_recover_code |-> <<>>,
         field_names |-> [i \in 1..Len(fi) |-> fi[i].name],
         builder_struct_fields |->
            [i \in 1..Len(fi) |->
                BuilderStructField(fi[i], make_constructor_arg_type(fi[i], fi))],
         builder_struct_field_names |->
            [i \in 1..Len(fi) |->
                BuilderStructFieldName(fi[i],
                                       make_constructor_arg_type(fi[i], fi))],
         build_fns |-> BuildFns]

\* lib.rs:477-664
create_try_builder_and_constructor(fi) ==
    LET head_field_names == HeadFieldNames(fi)
        params == [i \in 1..Len(fi) |->
                     Param(fi[i], make_try_constructor_arg_type(fi[i], fi))]
    IN  [params |-> params,
         code |-> Code(fi, Len(fi), "question", <<>>),
         or_recover_code |-> Code(fi, Len(fi), "recover", head_field_names),
         field_names |-> [i \in 1..Len(fi) |-> fi[i].name],
         builder_struct_fields |->
            [i \in 1..Len(fi) |->
                BuilderStructField(fi[i],
                                   make_try_constructor_arg_type(fi[i], fi))],
         builder_struct_field_names |->
            [i \in 1..Len(fi) |->
                BuilderStructFieldName(fi[i],
                                       make_try_constructor_arg_type(fi[i], fi))],
         build_fns |-> TryBuildFns]

\* ------------------------------------------------------ accessor synthesis
User(field, suffix, self_mut, ref_mut, of) ==
    [name |-> [prefix |-> "use_", base |-> field.name, suffix |-> suffix],
     field |-> field.name, self_mut |-> self_mut, ref_mut |-> ref_mut,
     of |-> of, typ |-> field.typ]

\* mutant of FieldUsers: every field that is not a tail gets use_*_contents
FieldUsersNotTail(field) ==
    IF field.field_type = "Tail"
    THEN <<User(field, "", FALSE, FALSE, "field"),
           User(field, "_mut", TRUE, TRUE, "field")>>
    ELSE <<User(field, "_contents", FALSE, FALSE, "contents")>>

\* the functions one field gets: lib.rs:673-730
FieldUsers(field) ==
    IF field.field_type = "Tail"
    THEN <<User(field, "", FALSE, FALSE, "field"),
           User(field, "_mut", TRUE, TRUE, "field")>>
    ELSE IF field.field_type = "Borrowed"
    THEN <<User(field, "_contents", FALSE, FALSE, "contents")>>
    ELSE <<>>

\* lib.rs:666-733
RECURSIVE make_use_functions(_)
make_use_functions(fi) ==
    IF fi = <<>> THEN <<>>
    ELSE FieldUsers(Head(fi)) \o make_use_functions(Tail(fi))

View(field, suffix, ref_mut, of) ==
    [name |-> Ident(field.name, suffix), field |-> field.name,
     ref_mut |-> ref_mut, of |-> of, typ |-> field.typ]

\* mutant of FieldViews: only tail fields are in the immutable view
FieldViewsTailOnly(field) ==
    IF field.field_type = "Tail"
    THEN <<View(field, "", FALSE, "field")>>
    ELSE <<>>

\* lib.rs:749-761, immutable view: what is pushed to `fields`
FieldViews(field) ==
    IF field.field_type = "Tail"
    THEN <<View(field, "", FALSE, "field")>>
    ELSE IF field.field_type = "Borrowed"
    THEN <<View(field, "_contents", FALSE, "contents")>>
    ELSE <<>>

\* mutant of FieldMutViews: every field that is not borrowed mutably is in
\* the mutable view
FieldMutViewsNotMut(field) ==
    IF field.field_type # "BorrowedMut"
    THEN <<View(field, "", TRUE, "field")>>
    ELSE <<>>

\* lib.rs:749-761, mutable view: what is pushed to `mut_fields`
FieldMutViews(field) ==
    IF field.field_type = "Tail"
    THEN <<View(field, "", TRUE, "field")>>
    ELSE <<>>

\* `<name>: <expr>` of a view literal; expr is &self.f ("ref"), &mut self.f
\* ("ref_mut") or &*self.f ("deref")
Assignment(field, suffix, expr) ==
    [name |-> Ident(field.name, suffix), expr |-> expr, of |-> field.name]

\* lib.rs:751 and 757: what is pushed to `field_assignments`
FieldAssignments(field) ==
    IF field.field_type = "Tail"
    THEN <<Assignment(field, "", "ref")>>
    ELSE IF field.field_type = "Borrowed"
    THEN <<Assignment(field, "_contents", "deref")>>
    ELSE <<>>

\* lib.rs:753: what is pushed to `mut_field_assignments`
FieldMutAssignments(field) ==
    IF field.field_type = "Tail"
    THEN <<Assignment(field, "", "ref_mut")>>
    ELSE <<>>

RECURSIVE Views(_), MutViews(_), Assignments(_), MutAssignments(_)
Views(fs) == IF fs = <<>> THEN <<>> ELSE FieldViews(Head(fs)) \o Views(Tail(fs))
MutViews(fs) ==
    IF fs = <<>> THEN <<>> ELSE FieldMutViews(Head(fs)) \o MutViews(Tail(fs))
Assignments(fs) ==
    IF fs = <<>> THEN <<>>
    ELSE FieldAssignments(Head(fs)) \o Assignments(Tail(fs))
MutAssignments(fs) ==
    IF fs = <<>> THEN <<>>
    ELSE FieldMutAssignments(Head(fs)) \o MutAssignments(Tail(fs))

NoUseAll ==
    [fields |-> <<>>, field_assignments |-> <<>>,
     mut_fields |-> <<>>, mut_field_assignments |-> <<>>]

\* lib.rs:735-836: `for field in field_info.iter().rev()`
make_use_all_function(fi) ==
    [fields |-> Views(Reversed(fi)),
     field_assignments |-> Assignments(Reversed(fi)),
     mut_fields |-> MutViews(Reversed(fi)),
     mut_field_assignments |-> MutAssignments(Reversed(fi))]

\* ---------------------------------------------------------- make_into_heads
\* what one iteration of lib.rs:850-861 pushes
IntoHeadsPush(code, field_names, head_fields) ==
    [code |-> code, field_names |-> field_names, head_fields |-> head_fields]

\* mutant of IntoHeadsField: a field with borrow requests is not dropped by a
\* statement of its own
IntoHeadsFieldNoDrop(field) ==
    IF Len(field.borrows) > 0
    THEN IntoHeadsPush(<<>>, <<>>, <<>>)
    ELSE IntoHeadsPush(<<[op |-> "move", field |-> field.name]>>,
                       <<field.name>>,
                       <<[name |-> field.name, typ |-> field.typ]>>)

\* mutant of IntoHeadsField: a head is a field that nothing borrows
IntoHeadsFieldByRole(field) ==
    IF field.field_type # "Tail"
    THEN IntoHeadsPush(<<[op |-> "drop", field |-> field.name]>>, <<>>, <<>>)
    ELSE IntoHeadsPush(<<[op |-> "move", field |-> field.name]>>,
                       <<field.name>>,
                       <<[name |-> field.name, typ |-> field.typ]>>)

\* lib.rs:851-860: drop(self.f); for a field that borrows; let f = self.f;
\* and an entry of Heads for a head
IntoHeadsField(field) ==
    IF Len(field.borrows) > 0
    THEN IntoHeadsPush(<<[op |-> "drop", field |-> field.name]>>, <<>>, <<>>)
    ELSE IntoHeadsPush(<<[op |-> "move", field |-> field.name]>>,
                       <<field.name>>,
                       <<[name |-> field.name, typ |-> field.typ]>>)

NoIntoHeads == IntoHeadsPush(<<>>, <<>>, <<>>)

\* lib.rs:845-861 over the fields fs
RECURSIVE IntoHeadsLoop(_)
IntoHeadsLoop(fs) ==
    IF fs = <<>> THEN NoIntoHeads
    ELSE LET h == IntoHeadsField(Head(fs))
             t == IntoHeadsLoop(Tail(fs))
         IN  IntoHeadsPush(h.code \o t.code, h.field_names \o t.field_names,
                           h.head_fields \o t.head_fields)

\* lib.rs:839-884: `for field in field_info.iter().rev()`
make_into_heads(fi) == IntoHeadsLoop(Reversed(fi))

\* ------------------------------------------------------------------- Init
NoToken == [kind |-> "none", text |-> ""]
NoRet == [kind |-> "none", err |-> "none", fields |-> <<>>]
NoCb == [kind |-> "none", err |-> "none", value |-> 0, field |-> "none"]
NoHeads == [kind |-> "none", fields |-> <<>>]

Init ==
    /\ pc = "fields"
    /\ field_info = <<>>
    /\ borrows = <<>>
    /\ borrow_mut = FALSE
    /\ waiting_for_comma = FALSE
    /\ token = NoToken
    /\ panic = NoPanic
    /\ actual_fields = <<>>
    /\ constructor_def = NoConstructor
    /\ try_constructor_def = NoConstructor
    /\ users = <<>>
    /\ use_all = NoUseAll
    /\ into_heads_fn = NoIntoHeads
    /\ output = FALSE
    /\ call = "none"
    /\ ip = 0
    /\ args = <<>>
    /\ locals = <<>>
    /\ refs = <<>>
    /\ invoked = <<>>
    /\ cb = NoCb
    /\ ret = NoRet
    /\ via = "none"
    /\ given = <<>>
    /\ builders = <<>>
    /\ called = <<>>
    /\ hip = 0
    /\ aggregate = <<>>
    /\ heads_locals = <<>>
    /\ teardown = <<>>
    /\ heads_ret = NoHeads

\* ------------------------------------------------- create_actual_struct
RECURSIVE TotalBorrows(_)
TotalBorrows(fi) ==
    IF fi = <<>> THEN 0 ELSE Len(Head(fi).borrows) + TotalBorrows(Tail(fi))

NextName == Names[Len(field_info) + 1]

\* lib.rs:256-279 for a field without a borrows attribute
FieldWithoutBorrows ==
    /\ pc = "fields"
    /\ Len(field_info) < MaxFields
    /\ field_info' = Append(field_info,
                            StructFieldInfo(NextName, TypeOf(NextName), "Tail",
                                            <<>>))
    /\ actual_fields' = Append(actual_fields,
                               [name |-> NextName, typ |-> TypeOf(NextName)])
    /\ UNCHANGED <<pc, borrows, borrow_mut, waiting_for_comma, token, panic,
                   constructor_def, try_constructor_def, users, use_all,
                   output>>
    /\ UNCHANGED into_heads_fn
    /\ UNCHANGED runVars

\* lib.rs:257-267 and 169-176: a borrows attribute is found; its tokens must
\* be one parenthesized group
BeginBorrowsAttr(group) ==
    /\ pc = "fields"
    /\ Len(field_info) < MaxFields
    /\ borrows' = <<>>
    /\ borrow_mut' = FALSE
    /\ waiting_for_comma' = FALSE
    /\ token' = NoToken
    /\ IF group
       THEN pc' = "attr" /\ panic' = panic
       ELSE pc' = "panicked" /\ panic' = Panic("InvalidSyntax", "")
    /\ UNCHANGED <<field_info, actual_fields, constructor_def,
                   try_constructor_def, users, use_all, output>>
    /\ UNCHANGED into_heads_fn
    /\ UNCHANGED runVars

\* lib.rs:177-244, one token
HandleToken(tok) ==
    /\ pc = "attr"
    /\ (tok.kind = "Ident" /\ tok.text # "mut")
          => TotalBorrows(field_info) + Len(borrows) < MaxBorrows
    /\ LET r == ScanToken(field_info, borrows, borrow_mut, waiting_for_comma,
                          tok)
       IN  /\ token' = tok
           /\ field_info' = r.field_info
           /\ borrows' = r.borrows
           /\ borrow_mut' = r.borrow_mut
           /\ waiting_for_comma' = r.waiting_for_comma
           /\ panic' = r.panic
           /\ pc' = IF r.panic = NoPanic THEN "attr" ELSE "panicked"
    /\ UNCHANGED <<actual_fields, constructor_def, try_constructor_def,
                   users, use_all, output>>
    /\ UNCHANGED into_heads_fn
    /\ UNCHANGED runVars

\* lib.rs:268-278: the attribute's tokens are exhausted, the field is pushed
PushField ==
    /\ pc = "attr"
    /\ field_info' = Append(field_info,
                            StructFieldInfo(NextName, TypeOf(NextName), "Tail",
                                            borrows))
    /\ actual_fields' = Append(actual_fields,
                               [name |-> NextName, typ |-> TypeOf(NextName)])
    /\ borrows' = <<>>
    /\ borrow_mut' = FALSE
    /\ waiting_for_comma' = FALSE
    /\ token' = NoToken
    /\ pc' = "fields"
    /\ UNCHANGED <<panic, constructor_def, try_constructor_def, users, use_all,
                   output>>
    /\ UNCHANGED into_heads_fn
    /\ UNCHANGED runVars

\* mutant of CheckFields: the test of lib.rs:287-302 comes before the test
\* of lib.rs:284-286
CheckFieldsTailFirst ==
    /\ pc = "fields"
    /\ IF ~HasNonTail(field_info)
       THEN pc' = "panicked"
            /\ panic' = Panic("AllTail", IF field_info = <<>> THEN ""
                                         ELSE field_info[1].name)
       ELSE IF TooFewFields(field_info)
       THEN pc' = "panicked" /\ panic' = Panic("TooFewFields", "")
       ELSE pc' = "reverse" /\ panic' = panic
    /\ UNCHANGED <<field_info, borrows, borrow_mut, waiting_for_comma,
                   token, actual_fields, constructor_def, try_constructor_def,
                   users, use_all, output>>
    /\ UNCHANGED into_heads_fn
    /\ UNCHANGED runVars

\* lib.rs:284-302: every field has been read
CheckFields ==
    /\ pc = "fields"
    /\ IF TooFewFields(field_info)
       THEN pc' = "panicked" /\ panic' = Panic("TooFewFields", "")
       ELSE IF ~HasNonTail(field_info)
       THEN pc' = "panicked" /\ panic' = Panic("AllTail", field_info[1].name)
       ELSE pc' = "reverse" /\ panic' = panic
    /\ UNCHANGED <<field_info, borrows, borrow_mut, waiting_for_comma,
                   token, actual_fields, constructor_def, try_constructor_def,
                   users, use_all, output>>
    /\ UNCHANGED into_heads_fn
    /\ UNCHANGED runVars

\* lib.rs:303-313
ReverseFields ==
    /\ pc = "reverse"
    /\ actual_fields' = Reversed(actual_fields)
    /\ pc' = "replace"
    /\ UNCHANGED <<field_info, borrows, borrow_mut, waiting_for_comma,
                   token, panic, constructor_def, try_constructor_def, users,
                   use_all, output>>
    /\ UNCHANGED into_heads_fn
    /\ UNCHANGED runVars

\* lib.rs:314-317
ReplaceThis ==
    /\ pc = "replace"
    /\ actual_fields' = [i \in 1..Len(actual_fields) |->
                           [actual_fields[i] EXCEPT
                              !.typ = ReplaceThisWithStatic(@)]]
    /\ pc' = "builder"
    /\ UNCHANGED <<field_info, borrows, borrow_mut, waiting_for_comma,
                   token, panic, constructor_def, try_constructor_def, users,
                   use_all, output>>
    /\ UNCHANGED into_heads_fn
    /\ UNCHANGED runVars

\* ------------------------------------------------------ self_referencing
\* lib.rs:898-905
CreateBuilderAndConstructor ==
    /\ pc = "builder"
    /\ constructor_def' = create_builder_and_constructor(field_info)
    /\ pc' = "try_builder"
    /\ UNCHANGED <<field_info, borrows, borrow_mut, waiting_for_comma,
                   token, panic, actual_fields, try_constructor_def, users,
                   use_all, output>>
    /\ UNCHANGED into_heads_fn
    /\ UNCHANGED runVars

\* lib.rs:906-913
CreateTryBuilderAndConstructor ==
    /\ pc = "try_builder"
    /\ try_constructor_def' = create_try_builder_and_constructor(field_info)
    /\ pc' = "users"
    /\ UNCHANGED <<field_info, borrows, borrow_mut, waiting_for_comma,
                   token, panic, actual_fields, constructor_def, users,
                   use_all, output>>
    /\ UNCHANGED into_heads_fn
    /\ UNCHANGED runVars

\* lib.rs:915
MakeUseFunctions ==
    /\ pc = "users"
    /\ users' = make_use_functions(field_info)
    /\ pc' = "use_all"
    /\ UNCHANGED <<field_info, borrows, borrow_mut, waiting_for_comma,
                   token, panic, actual_fields, constructor_def,
                   try_constructor_def, use_all, output>>
    /\ UNCHANGED into_heads_fn
    /\ UNCHANGED runVars

\* lib.rs:916-917
MakeUseAllFunction ==
    /\ pc = "use_all"
    /\ use_all' = make_use_all_function(field_info)
    /\ pc' = "into_heads"
    /\ UNCHANGED <<field_info, borrows, borrow_mut, waiting_for_comma,
                   token, panic, actual_fields, constructor_def,
                   try_constructor_def, users, output>>
    /\ UNCHANGED into_heads_fn
    /\ UNCHANGED runVars

\* lib.rs:918-919
MakeIntoHeads ==
    /\ pc = "into_heads"
    /\ into_heads_fn' = make_into_heads(field_info)
    /\ pc' = "expand"
    /\ UNCHANGED <<field_info, borrows, borrow_mut, waiting_for_comma,
                   token, panic, actual_fields, constructor_def,
                   try_constructor_def, users, use_all, output>>
    /\ UNCHANGED runVars

\* lib.rs:921-939
Expand ==
    /\ pc = "expand"
    /\ output' = TRUE
    /\ pc' = "generated"
    /\ UNCHANGED <<field_info, borrows, borrow_mut, waiting_for_comma,
                   token, panic, actual_fields, constructor_def,
                   try_constructor_def, users, use_all>>
    /\ UNCHANGED into_heads_fn
    /\ UNCHANGED runVars

\* ------------------------------------------- running a generated constructor
Range(s) == {s[i] : i \in 1..Len(s)}

Extend(f, k, v) == [x \in DOMAIN f \cup {k} |-> IF x = k THEN v ELSE f[x]]

Def(variant) == IF variant = "new" THEN constructor_def ELSE try_constructor_def

Body(variant) ==
    IF variant = "try_new_or_recover"
    THEN try_constructor_def.or_recover_code
    ELSE Def(variant).code

ParamOf(variant, field) ==
    LET ps == Def(variant).params
    IN  ps[CHOOSE i \in 1..Len(ps) : ps[i].field = field]

PlainParams(variant) ==
    {p.field : p \in {q \in Range(Def(variant).params) : q.arg.kind = "Plain"}}

\* what a builder may return: a value for its field, which is a view of one
\* of the contents it was handed (seen), or, when its bound returns
\* Result<_, Error_>, an error
BuilderResults(ret_type, seen) ==
    {[kind |-> "Ok", err |-> "none", value |-> v] : v \in seen}
    \cup (IF ret_type = "Result"
          THEN {[kind |-> "Err", err |-> e, value |-> 0] : e \in Errors}
          ELSE {})

\* mutant of From: the error is replaced
FromOther(e) == "E1"

\* the `?` of lib.rs:600: Err(e) returns Err(From::from(e)), and the error
\* type of the builder is the error type of try_new
From(e) == e

\* mutant of HeadsLiteral: every head is given the value of the first one
HeadsLiteralFirst(heads, bound) == [h \in Range(heads) |-> bound[heads[1]]]

\* Heads { #(#head_field_names),* } of lib.rs:605
HeadsLiteral(heads, bound) == [h \in Range(heads) |-> bound[h]]

\* Self { #(#field_names),* } of lib.rs:457, 633 and 638
SelfLiteral(field_names, bound) == [n \in Range(field_names) |-> bound[n]]

\* an argument: a value for a plain parameter, or the callback the caller
\* wrote for the parameter (or builder field) called name
Value(v) == [kind |-> "value", value |-> v, of |-> Ident("", "")]
Callback(name) == [kind |-> "callback", value |-> 0, of |-> name]

\* the argument list of a direct call of lib.rs:455, 631 or 636, one argument
\* per parameter: vals gives the values of the plain ones
Actuals(variant, vals) ==
    LET ps == Def(variant).params
    IN  [i \in 1..Len(ps) |->
            IF ps[i].arg.kind = "Plain"
            THEN Value(vals[ps[i].field])
            ELSE Callback(ps[i].name)]

\* the builder struct the caller fills in (lib.rs:462-464 and 645-647), one
\* entry per field of builder_struct_fields
BuilderLiteral(variant, vals) ==
    LET fs == Def(variant).builder_struct_fields
    IN  [n \in {fs[i].name : i \in 1..Len(fs)} |->
            LET f == fs[CHOOSE i \in 1..Len(fs) : fs[i].name = n]
            IN  IF f.arg.kind = "Plain"
                THEN Value(vals[f.name.base])
                ELSE Callback(f.name)]

\* mutant of Forward: the fields are forwarded in the opposite order
ForwardReversed(literal, names) ==
    [i \in 1..Len(names) |-> literal[names[Len(names) + 1 - i]]]

\* #(self.#builder_struct_field_names),* of lib.rs:469, 652 and 658
Forward(literal, names) == [i \in 1..Len(names) |-> literal[names[i]]]

\* the constructor a build function calls: lib.rs:468, 651 and 657
BuildFn(fn) ==
    LET fns == constructor_def.build_fns \o try_constructor_def.build_fns
    IN  fns[CHOOSE i \in 1..Len(fns) : fns[i].name = fn]

\* the arguments fit the parameters: a value for a plain parameter, a
\* callback for `impl FnOnce(..) -> ..`
Fits(variant, actuals) ==
    LET ps == Def(variant).params
    IN  /\ Len(actuals) = Len(ps)
        /\ \A i \in 1..Len(ps) :
              (ps[i].arg.kind = "Plain") <=> (actuals[i].kind = "value")

\* the parameters bound by position: plain ones by field name, ...
BoundValues(variant, actuals) ==
    LET ps == Def(variant).params
    IN  [f \in PlainParams(variant) |->
            actuals[CHOOSE i \in 1..Len(ps) : ps[i].field = f].value]

\* ... builder parameters by parameter name
BoundBuilders(variant, actuals) ==
    LET ps == Def(variant).params
        bs == {i \in 1..Len(ps) : ps[i].arg.kind # "Plain"}
    IN  [n \in {ps[i].name : i \in bs} |->
            actuals[CHOOSE i \in bs : ps[i].name = n]]

\* entry of new, try_new or try_new_or_recover with the arguments actuals
\* (lib.rs:455, 631, 636); arguments that do not fit are rejected by the
\* compiler
Enter(variant, actuals, route, vals) ==
    /\ pc = "generated"
    /\ call = "none"
    /\ call' = variant
    /\ via' = route
    /\ given' = vals
    /\ refs' = <<>>
    /\ invoked' = <<>>
    /\ called' = <<>>
    /\ IF Fits(variant, actuals)
       THEN /\ ip' = 1
            /\ args' = BoundValues(variant, actuals)
            /\ locals' = BoundValues(variant, actuals)
            /\ builders' = BoundBuilders(variant, actuals)
            /\ ret' = ret
       ELSE /\ ip' = 0
            /\ args' = <<>>
            /\ locals' = <<>>
            /\ builders' = <<>>
            /\ ret' = [kind |-> "Mismatch", err |-> "none", fields |-> <<>>]
    /\ UNCHANGED cb
    /\ UNCHANGED headsVars
    /\ UNCHANGED genVars

\* lib.rs:455, 631 and 636: the caller passes a value for every plain
\* parameter and a callback for every other one
CallConstructor(variant, vals) ==
    Enter(variant, Actuals(variant, vals), "direct", vals)

\* lib.rs:467-471, 650-654 and 655-660: the caller fills a builder struct and
\* calls fn on it, which forwards the fields to the constructor by position
CallBuild(fn, vals) ==
    LET variant == BuildFn(fn).calls
    IN  Enter(variant,
              Forward(BuilderLiteral(variant, vals),
                      Def(variant).builder_struct_field_names),
              fn, vals)

\* a statement pushed by lib.rs:444-448 or 617-623; a variable that is not
\* bound is rejected by the compiler
MakeReference ==
    /\ call # "none"
    /\ ret.kind = "none"
    /\ ip <= Len(Body(call))
    /\ LET stmt == Body(call)[ip]
       IN  /\ stmt.op = "ref"
           /\ IF stmt.field \in DOMAIN locals
              THEN /\ refs' = Extend(refs, stmt.field, stmt.mutable)
                   /\ ip' = ip + 1
                   /\ ret' = ret
              ELSE /\ ret' = [kind |-> "Unbound", err |-> "none",
                              fields |-> <<>>]
                   /\ UNCHANGED <<refs, ip>>
    /\ UNCHANGED <<call, args, locals, invoked, cb, via, given, builders,
                   called>>
    /\ UNCHANGED headsVars
    /\ UNCHANGED genVars

\* a statement pushed by lib.rs:429-434, 600 or 601-607: the builder is called
\* with the references; it may write through those it holds mutably
CallBuilder(res, wset) ==
    /\ call # "none"
    /\ ret.kind = "none"
    /\ ip <= Len(Body(call))
    /\ LET stmt == Body(call)[ip]
           bound == ParamOf(call, stmt.field).arg
           passed == [k \in 1..Len(stmt.builder_args) |-> stmt.builder_args[k].base]
       IN  /\ stmt.op = "call"
           /\ IF /\ Range(passed) \subseteq DOMAIN refs
                 /\ stmt.builder \in DOMAIN builders
              THEN LET writable == {passed[k] : k \in {j \in 1..Len(passed) :
                                                 /\ bound.params[j].mutable
                                                 /\ refs[passed[j]]}}
                       after == [n \in DOMAIN locals |->
                                   IF n \in wset THEN Written ELSE locals[n]]
                   IN
                   /\ res \in BuilderResults(bound.ret,
                                             {after[n] : n \in Range(passed)})
                   /\ wset \subseteq writable
                   /\ invoked' = Append(invoked, stmt.field)
                   /\ called' = Append(called, builders[stmt.builder])
                   /\ cb' = [kind |-> res.kind, err |-> res.err,
                             value |-> res.value, field |-> stmt.field]
                   /\ IF res.kind = "Ok"
                      THEN /\ locals' = Extend(after, stmt.field, res.value)
                           /\ ip' = ip + 1
                           /\ ret' = ret
                      ELSE /\ locals' = after
                           /\ ip' = ip
                           /\ ret' = IF stmt.onerr = "question"
                                     THEN [kind |-> "Err", err |-> From(res.err),
                                           fields |-> <<>>]
                                     ELSE [kind |-> "ErrHeads", err |-> res.err,
                                           fields |-> HeadsLiteral(stmt.heads, after)]
              ELSE /\ res = [kind |-> "Ok", err |-> "none", value |-> Written]
                   /\ wset = {}
                   /\ ret' = [kind |-> "Unbound", err |-> "none",
                              fields |-> <<>>]
                   /\ UNCHANGED <<invoked, called, cb, locals, ip>>
    /\ UNCHANGED <<call, args, refs, via, given, builders>>
    /\ UNCHANGED headsVars
    /\ UNCHANGED genVars

\* lib.rs:457, 633 and 638
ReturnSelf ==
    /\ call # "none"
    /\ ret.kind = "none"
    /\ ip > Len(Body(call))
    /\ ret' = [kind |-> "Ok", err |-> "none",
               fields |-> SelfLiteral(Def(call).field_names, locals)]
    /\ UNCHANGED <<call, ip, args, locals, refs, invoked, cb, via, given,
                   builders, called>>
    /\ UNCHANGED headsVars
    /\ UNCHANGED genVars

\* --------------------------------------------------- running into_heads
\* lib.rs:876: into_heads(self) is called on a constructed struct
CallIntoHeads ==
    /\ ret.kind = "Ok"
    /\ hip = 0
    /\ hip' = 1
    /\ aggregate' = [n \in DOMAIN ret.fields |-> "live"]
    /\ heads_locals' = <<>>
    /\ teardown' = <<>>
    /\ UNCHANGED heads_ret
    /\ UNCHANGED ctorVars
    /\ UNCHANGED genVars

\* one statement of lib.rs:877, pushed by lib.rs:854: drop(self.f);
\* a field that was moved out of self before cannot be used again
DropField ==
    /\ hip > 0
    /\ heads_ret.kind = "none"
    /\ hip <= Len(into_heads_fn.code)
    /\ LET stmt == into_heads_fn.code[hip]
       IN  /\ stmt.op = "drop"
           /\ IF aggregate[stmt.field] = "live"
              THEN /\ aggregate' = [aggregate EXCEPT ![stmt.field] = "dropped"]
                   /\ teardown' = Append(teardown, stmt)
                   /\ hip' = hip + 1
                   /\ heads_ret' = heads_ret
              ELSE /\ heads_ret' = [kind |-> "UseOfMovedValue", fields |-> <<>>]
                   /\ UNCHANGED <<aggregate, teardown, hip>>
    /\ UNCHANGED heads_locals
    /\ UNCHANGED ctorVars
    /\ UNCHANGED genVars

\* one statement of lib.rs:877, pushed by lib.rs:856: let f = self.f;
MoveField ==
    /\ hip > 0
    /\ heads_ret.kind = "none"
    /\ hip <= Len(into_heads_fn.code)
    /\ LET stmt == into_heads_fn.code[hip]
       IN  /\ stmt.op = "move"
           /\ IF aggregate[stmt.field] = "live"
              THEN /\ aggregate' = [aggregate EXCEPT ![stmt.field] = "moved"]
                   /\ heads_locals' = Extend(heads_locals, stmt.field,
                                             ret.fields[stmt.field])
                   /\ teardown' = Append(teardown, stmt)
                   /\ hip' = hip + 1
                   /\ heads_ret' = heads_ret
              ELSE /\ heads_ret' = [kind |-> "UseOfMovedValue", fields |-> <<>>]
                   /\ UNCHANGED <<aggregate, heads_locals, teardown, hip>>
    /\ UNCHANGED ctorVars
    /\ UNCHANGED genVars

\* the fields of self that are left when into_heads returns, in the order
\* the struct declares them (the storage order): they are dropped with self
Remaining ==
    LET left == SelectSeq(actual_fields, LAMBDA f : aggregate[f.name] = "live")
    IN  [k \in 1..Len(left) |-> [op |-> "drop", field |-> left[k].name]]

\* lib.rs:878-881: Heads { #(#field_names),* }, then self goes out of scope
ReturnHeads ==
    /\ hip > Len(into_heads_fn.code)
    /\ heads_ret.kind = "none"
    /\ heads_ret' = [kind |-> "Ok",
                     fields |-> HeadsLiteral(into_heads_fn.field_names,
                                             heads_locals)]
    /\ teardown' = teardown \o Remaining
    /\ aggregate' = [n \in DOMAIN aggregate |->
                        IF aggregate[n] = "live" THEN "dropped" ELSE aggregate[n]]
    /\ UNCHANGED <<hip, heads_locals>>
    /\ UNCHANGED ctorVars
    /\ UNCHANGED genVars

\* ------------------------------------------------------------------- Next
Variants == {"new", "try_new", "try_new_or_recover"}

GenNext ==
    \/ FieldWithoutBorrows
    \/ \E group \in BOOLEAN : BeginBorrowsAttr(group)
    \/ \E tok \in Tokens : HandleToken(tok)
    \/ PushField
    \/ CheckFields
    \/ ReverseFields
    \/ ReplaceThis
    \/ CreateBuilderAndConstructor
    \/ CreateTryBuilderAndConstructor
    \/ MakeUseFunctions
    \/ MakeUseAllFunction
    \/ MakeIntoHeads
    \/ Expand

RunNext ==
    \/ /\ pc = "generated"
       /\ call = "none"
       /\ \E variant \in Variants :
             \E vals \in [PlainParams(variant) -> Values] :
                CallConstructor(variant, vals)
    \/ MakeReference
    \/ /\ call # "none"
       /\ ret.kind = "none"
       /\ \E res \in BuilderResults("Result", Values \cup {Written}),
             wset \in SUBSET {n \in DOMAIN refs : refs[n]} :
                CallBuilder(res, wset)
    \/ ReturnSelf

HeadsNext ==
    \/ CallIntoHeads
    \/ DropField
    \/ MoveField
    \/ ReturnHeads

BuildFnNames == {"build", "try_build", "try_build_or_recover"}

BuildNext ==
    /\ pc = "generated"
    /\ call = "none"
    /\ \E fn \in BuildFnNames :
          \E vals \in [PlainParams(BuildFn(fn).calls) -> Values] :
             CallBuild(fn, vals)

Next == GenNext \/ RunNext

\* the macro expansion followed by one run of a generated constructor
Spec == Init /\ [][Next]_vars

\* the macro expansion alone
SpecGen == Init /\ [][GenNext]_vars

\* the macro expansion, one run of a generated constructor, and into_heads on
\* the struct it returned
SpecHeads == Init /\ [][Next \/ HeadsNext]_vars

\* the macro expansion and one run of a generated constructor, called
\* directly or through a build function of a builder
SpecBuild == Init /\ [][Next \/ BuildNext]_vars

\* ================================================================ claims
\* vocabulary of the claims
Fields == 1..Len(field_info)
IndexOf(n) == CHOOSE i \in Fields : field_info[i].name = n
IsHead(i) == Len(field_info[i].borrows) = 0
HeadNameSet == {field_info[i].name : i \in {j \in Fields : IsHead(j)}}
DependentNameSet == {field_info[i].name : i \in {j \in Fields : ~IsHead(j)}}
Fallible == call \in {"try_new", "try_new_or_recover"}
Failed == ret.kind \in {"Err", "ErrHeads"}
\* the fields some builder invoked so far was handed a mutable reference to
MutablyHanded ==
    {field_info[b.index].name :
        b \in UNION {Range(field_info[IndexOf(n)].borrows) : n \in Range(invoked)}
        \ {r \in UNION {Range(field_info[IndexOf(n)].borrows) : n \in Range(invoked)} :
              ~r.mutable}}

\* ---------------------------------------------------------------- C1
\* C1 as stated: when the builder of field k fails in try_new_or_recover, the
\* heads returned with the error are exactly the head fields declared
\* before k.
C1_HeadsBeforeFailingField ==
    ret.kind = "ErrHeads" =>
        DOMAIN ret.fields =
            {field_info[i].name :
                i \in {j \in Fields : IsHead(j) /\ j < IndexOf(cb.field)}}

\* C1 amended: when a builder fails in try_new_or_recover, the heads returned
\* with the error are exactly the head fields of the struct (every field
\* without borrow requests), whether declared before or after the field whose
\* builder failed.
C1_RecoveredHeadsAreAllHeads ==
    ret.kind = "ErrHeads" => DOMAIN ret.fields = HeadNameSet

\* a builder failed while a head field is declared after its field
C1_Witness ==
    /\ ret.kind = "ErrHeads"
    /\ \E i \in Fields : IsHead(i) /\ i > IndexOf(cb.field)
    /\ \E i \in Fields : IsHead(i) /\ field_info[i].field_type = "BorrowedMut"

\* ---------------------------------------------------------------- C2
\* the names of the fields with borrow requests, in declaration order
DependentNames ==
    LET deps == SelectSeq(field_info, LAMBDA f : Len(f.borrows) > 0)
    IN  [k \in 1..Len(deps) |-> deps[k].name]

\* C2: in try_new and try_new_or_recover the builders are invoked in
\* declaration order; as soon as one fails the constructor has returned, with
\* that builder's error unchanged, the failing builder is the last one
\* invoked, and no aggregate is returned.
C2_FailFast ==
    Fallible =>
        /\ Len(invoked) <= Len(DependentNames)
        /\ invoked = SubSeq(DependentNames, 1, Len(invoked))
        /\ (cb.kind = "Err") <=> Failed
        /\ Failed =>
              /\ ret.err = cb.err
              /\ invoked # <<>>
              /\ invoked[Len(invoked)] = cb.field
              /\ ret.kind = "Err" <=> call = "try_new"
              /\ \A n \in DependentNameSet : n \notin DOMAIN ret.fields
        /\ ret.kind = "Ok" => invoked = DependentNames

\* a builder failed, in either constructor, although a later field has a
\* builder too
C2_Witness ==
    /\ Fallible
    /\ Failed
    /\ cb.err = "E2"
    /\ Len(invoked) < Len(DependentNames)

\* ---------------------------------------------------------------- C3
\* C3 as stated: when a builder fails in try_new_or_recover, the error comes
\* with all head fields, each holding the value the caller passed, and with
\* no field that has borrow requests.
C3_HeadsHoldPassedValues ==
    ret.kind = "ErrHeads" =>
        /\ HeadNameSet \subseteq DOMAIN ret.fields
        /\ \A n \in HeadNameSet : ret.fields[n] = args[n]
        /\ \A n \in DependentNameSet : n \notin DOMAIN ret.fields

\* C3 amended: when a builder fails in try_new_or_recover, the error comes
\* with all head fields and with no field that has borrow requests; every
\* head that no invoked builder was handed a mutable reference to holds the
\* value the caller passed (a head that was handed out mutably is returned
\* with the contents the builders left in it).
C3_UntouchedHeadsHoldPassedValues ==
    ret.kind = "ErrHeads" =>
        /\ HeadNameSet \subseteq DOMAIN ret.fields
        /\ \A n \in HeadNameSet \ MutablyHanded : ret.fields[n] = args[n]
        /\ \A n \in DependentNameSet : n \notin DOMAIN ret.fields

\* the scenario of the claim: heads a and b, c borrows a mutably and its
\* builder fails
C3_Witness ==
    /\ ret.kind = "ErrHeads"
    /\ Len(field_info) = MaxFields
    /\ cb.field = field_info[MaxFields].name
    /\ IsHead(1) /\ IsHead(2)
    /\ BorrowRequest(1, TRUE) \in Range(field_info[MaxFields].borrows)
    /\ args[field_info[1].name] # args[field_info[2].name]

\* ---------------------------------------------------------------- C4
NameToken == token.kind = "Ident" /\ token.text # "mut"
DeclaredBefore(n) == \E i \in Fields : field_info[i].name = n
\* the borrow graph: requester -> target
RequestEdges ==
    UNION {{<<i, b.index>> : b \in Range(field_info[i].borrows)} : i \in Fields}
\* the pairs joined by a path of at most n + 1 edges of R
RECURSIVE Paths(_, _)
Paths(R, n) ==
    IF n = 0 THEN R
    ELSE LET S == Paths(R, n - 1)
         IN  S \cup {<<q[1][1], q[2][2]>> :
                        q \in {u \in S \X R : u[1][2] = u[2][1]}}

\* C4: a name in a borrows list that is not the name of a field declared
\* before the requesting field (its own name, a later field's, or no field's)
\* aborts the expansion with the unknown-identifier panic (the scanner asks for
\* the separating comma first); so every request that was accepted has a
\* target index strictly smaller than the requester's, and no field reaches
\* itself along borrow requests.
C4_ForwardOnly ==
    /\ (pc \in {"attr", "panicked"} /\ NameToken /\ ~DeclaredBefore(token.text))
          => /\ pc = "panicked"
             /\ panic.msg = IF waiting_for_comma THEN "ExpectedComma"
                            ELSE "UnknownIdentifier"
             /\ panic.arg = token.text
    /\ \A i \in Fields : \A k \in 1..Len(field_info[i].borrows) :
          field_info[i].borrows[k].index \in 1..(i - 1)
    /\ \A k \in 1..Len(borrows) : borrows[k].index \in Fields
    /\ \A i \in Fields : <<i, i>> \notin Paths(RequestEdges, Len(field_info))

\* the second field names itself, or the third field, in its borrows list
C4_Witness ==
    /\ pc = "panicked"
    /\ panic.msg = "UnknownIdentifier"
    /\ Len(field_info) = 1
    /\ token.text \in {Names[2], Names[3]}
    /\ field_info[1].field_type = "Borrowed"

\* ---------------------------------------------------------------- C5
\* every request accepted so far, those of the field being read included
Requests ==
    UNION {{[from |-> i, at |-> k, to |-> field_info[i].borrows[k].index,
             mutable |-> field_info[i].borrows[k].mutable] :
                k \in 1..Len(field_info[i].borrows)} : i \in Fields}
    \cup {[from |-> Len(field_info) + 1, at |-> k, to |-> borrows[k].index,
           mutable |-> borrows[k].mutable] : k \in 1..Len(borrows)}
RequestsTo(t) == {r \in Requests : r.to = t}

\* C5: at no point of the expansion, and so in no accepted struct, is a field
\* the target of a mutable request and of any other request, mutable or not,
\* in either order, from the same field or from another one: the second of
\* two such requests aborts the expansion.
C5_Exclusive ==
    /\ \A t \in Fields :
          (\E r \in RequestsTo(t) : r.mutable) => Cardinality(RequestsTo(t)) = 1
    /\ (pc = "panicked" /\ panic.msg \in {"PreviouslyBorrowedImmutably",
                                           "MutablyMoreThanOnce",
                                           "PreviouslyBorrowedMutably"})
          => /\ ~output
             /\ RequestsTo(IndexOf(panic.arg)) # {}
             /\ borrow_mut \/ \E r \in RequestsTo(IndexOf(panic.arg)) : r.mutable

\* a field is borrowed mutably by the second field and the third field asks
\* for it again
C5_Witness ==
    /\ pc = "panicked"
    /\ panic.msg \in {"MutablyMoreThanOnce", "PreviouslyBorrowedMutably"}
    /\ Len(field_info) = 2
    /\ borrows = <<>>

\* ---------------------------------------------------------------- C6
RoleFromRequests(t) ==
    IF RequestsTo(t) = {} THEN "Tail"
    ELSE IF \A r \in RequestsTo(t) : ~r.mutable THEN "Borrowed"
    ELSE IF Cardinality(RequestsTo(t)) = 1 THEN "BorrowedMut"
    ELSE "none"

\* a request list by name, as it was declared
RawList(fi, bs) ==
    [k \in 1..Len(bs) |->
        [name |-> fi[bs[k].index].name, mutable |-> bs[k].mutable]]
\* the request lists the struct was declared with
RawOf(fi) == [i \in 1..Len(fi) |-> RawList(fi, fi[i].borrows)]
\* the lists read when a request aborted the expansion: the failing request
\* is the last of the last list
RawAtPanic ==
    Append(RawOf(field_info),
           Append(RawList(field_info, borrows),
                  [name |-> token.text, mutable |-> borrow_mut]))
Orders(list) ==
    {p \in [1..Len(list) -> 1..Len(list)] :
        \A x, y \in 1..Len(list) : p[x] = p[y] => x = y}
\* every way of reordering the requests inside each list
RECURSIVE Reorderings(_)
Reorderings(lists) ==
    IF lists = <<>> THEN {<<>>}
    ELSE {<<[k \in 1..Len(Head(lists)) |-> Head(lists)[p[k]]]>> \o rest :
             p \in Orders(Head(lists)), rest \in Reorderings(Tail(lists))}
Roles(fi) == [i \in 1..Len(fi) |-> fi[i].field_type]
Accepted == pc \notin {"fields", "attr", "panicked"}
RequestPanics == {"UnknownIdentifier", "PreviouslyBorrowedImmutably",
                  "MutablyMoreThanOnce", "PreviouslyBorrowedMutably"}

\* C6: the role of every field is determined by the requests that target it
\* (Tail: none; Borrowed: some, all immutable; BorrowedMut: exactly one,
\* mutable); collecting an accepted struct again from its request lists, with
\* the requests of each field in any order, accepts it with the same roles,
\* and a struct rejected for one of its requests is rejected in any order of
\* the requests of each field.
C6_RolesFromRequests ==
    /\ \A t \in Fields : field_info[t].field_type = RoleFromRequests(t)
    /\ Accepted =>
          /\ Collect(<<>>, RawOf(field_info)).field_info = field_info
          /\ \A lists \in Reorderings(RawOf(field_info)) :
                LET c == Collect(<<>>, lists)
                IN  c.panic = NoPanic /\ Roles(c.field_info) = Roles(field_info)
    /\ (pc = "panicked" /\ panic.msg \in RequestPanics) =>
          \A lists \in Reorderings(RawAtPanic) :
             Collect(<<>>, lists).panic.msg \in RequestPanics

\* an accepted struct with a field borrowed twice immutably, by a field that
\* also borrows another one
C6_Witness ==
    /\ pc = "generated"
    /\ Len(field_info) = MaxFields
    /\ Cardinality(RequestsTo(1)) = 2
    /\ Len(field_info[MaxFields].borrows) = 2
    /\ field_info[2].field_type # "Tail"

\* ---------------------------------------------------------------- C7
LaidOut == pc \in {"replace", "builder", "try_builder", "users", "use_all",
                   "into_heads", "expand", "generated"}
StoragePos(n) ==
    CHOOSE p \in 1..Len(actual_fields) : actual_fields[p].name = n
Stored(n) == \E p \in 1..Len(actual_fields) : actual_fields[p].name = n

\* C7: in the storage order every field that borrows is placed strictly
\* before each field it borrows, so dropping the fields one by one in storage
\* order never drops a field that a field not yet dropped borrows.
C7_BorrowersStoredFirst ==
    LaidOut =>
        /\ \A i \in Fields : Stored(field_info[i].name)
        /\ \A r \in Requests :
              StoragePos(field_info[r.from].name) < StoragePos(field_info[r.to].name)
        /\ \A m \in 0..Len(actual_fields) :
              LET dropped == {actual_fields[p].name : p \in 1..m}
              IN  \A r \in Requests :
                     field_info[r.to].name \in dropped
                        => field_info[r.from].name \in dropped

\* a laid out struct in which the last field borrows the second, which
\* borrows the first
C7_Witness ==
    /\ LaidOut
    /\ Len(field_info) = MaxFields
    /\ \E r \in Requests : r.from = MaxFields /\ r.to = 2
    /\ \E r \in Requests : r.from = 2 /\ r.to = 1

\* ---------------------------------------------------------------- C8
C8_Layout ==
    LaidOut =>
        /\ Len(actual_fields) = Len(field_info)
        /\ \A i \in Fields :
              LET stored == actual_fields[Len(field_info) + 1 - i]
              IN  /\ stored.name = field_info[i].name
                  /\ stored.typ.of = field_info[i].typ.of
                  /\ pc = "replace" => stored.typ = field_info[i].typ
        /\ \A p, q \in 1..Len(actual_fields) :
              actual_fields[p].name = actual_fields[q].name => p = q

\* C8: the storage layout of an accepted struct of n fields holds the field
\* declared at (0-based) index i at position n-1-i, every field once, with the
\* name and type it was declared with, and reordering leaves the field
\* descriptors (name, type, role, requests) as they were.
C8_ReversedLayout ==
    /\ []C8_Layout
    /\ [][pc = "reverse" => field_info' = field_info /\ pc' = "replace"]_vars

\* a struct of three fields right after the reordering
C8_Witness ==
    /\ pc = "replace"
    /\ Len(field_info) = MaxFields
    /\ actual_fields[1].name = Names[MaxFields]
    /\ Requests # {}

\* ---------------------------------------------------------------- C9
\* what the access surface offers for the field called n
UsersOf(n) == {users[k] : k \in {j \in 1..Len(users) : users[j].field = n}}
ViewsOf(n) ==
    {use_all.fields[k] :
        k \in {j \in 1..Len(use_all.fields) : use_all.fields[j].field = n}}
MutViewsOf(n) ==
    {use_all.mut_fields[k] :
        k \in {j \in 1..Len(use_all.mut_fields) : use_all.mut_fields[j].field = n}}

\* C9: in the generated access surface a field that is the target of any
\* borrow request is offered by no accessor and no aggregate view mutably or
\* as the owning value, and a field that is the target of a mutable request
\* is offered by none at all.
C9_NoAliasingAccess ==
    output =>
        \A t \in Fields :
           LET n == field_info[t].name
           IN  /\ RequestsTo(t) # {} =>
                     /\ \A u \in UsersOf(n) : ~u.ref_mut /\ u.of = "contents"
                     /\ \A v \in ViewsOf(n) : ~v.ref_mut /\ v.of = "contents"
                     /\ MutViewsOf(n) = {}
               /\ (\E r \in RequestsTo(t) : r.mutable) =>
                     UsersOf(n) = {} /\ ViewsOf(n) = {} /\ MutViewsOf(n) = {}

\* a generated struct with a field borrowed mutably, one borrowed immutably
\* and a tail
C9_Witness ==
    /\ output
    /\ \E t \in Fields : \E r \in RequestsTo(t) : r.mutable
    /\ \E t \in Fields : RequestsTo(t) # {} /\ \A r \in RequestsTo(t) : ~r.mutable
    /\ \E t \in Fields : MutViewsOf(field_info[t].name) # {}

\* ---------------------------------------------------------------- C10
Shape(u) == <<u.name.prefix, u.name.base, u.name.suffix, u.self_mut, u.ref_mut, u.of>>
UserCount(n) == Cardinality({j \in 1..Len(users) : users[j].field = n})

\* C10: a Tail field gets exactly use_<f> (immutable reference to the field)
\* and use_<f>_mut (mutable reference to the field), a Borrowed field exactly
\* use_<f>_contents (immutable reference to the dereferenced contents), a
\* BorrowedMut field nothing.
C10_AccessorsByRole ==
    output =>
        \A t \in Fields :
           LET n == field_info[t].name
               role == field_info[t].field_type
               shapes == {Shape(u) : u \in UsersOf(n)}
           IN  /\ role = "Tail" =>
                     /\ UserCount(n) = 2
                     /\ shapes = {<<"use_", n, "", FALSE, FALSE, "field">>,
                                  <<"use_", n, "_mut", TRUE, TRUE, "field">>}
               /\ role = "Borrowed" =>
                     /\ UserCount(n) = 1
                     /\ shapes = {<<"use_", n, "_contents", FALSE, FALSE, "contents">>}
               /\ role = "BorrowedMut" => UserCount(n) = 0

\* a generated struct with a field of each role
C10_Witness ==
    /\ output
    /\ {field_info[t].field_type : t \in Fields} = {"Tail", "Borrowed", "BorrowedMut"}
    /\ Len(users) = 3

\* ---------------------------------------------------------------- C11
\* the entries of a view (a sequence of records with a name) for the field n
EntriesOf(view, n) == {k \in 1..Len(view) : view[k].name.base = n}
FieldsOfRole(role) == {t \in Fields : field_info[t].field_type = role}

\* C11: the immutable view (BorrowedFields, built by use_all_fields) has
\* exactly one entry per Tail field, a reference to the field, one per
\* Borrowed field, a reference to its dereferenced contents, and none for a
\* BorrowedMut field; the mutable view (BorrowedMutFields, built by
\* use_all_fields_mut) has exactly one entry per Tail field, a mutable
\* reference to the field, and none for a Borrowed or BorrowedMut field; each
\* view literal assigns exactly the entries its struct declares.
C11_AggregateViews ==
    output =>
        /\ Len(use_all.fields) = Cardinality(FieldsOfRole("Tail"))
                                  + Cardinality(FieldsOfRole("Borrowed"))
        /\ Len(use_all.mut_fields) = Cardinality(FieldsOfRole("Tail"))
        /\ Len(use_all.field_assignments) = Len(use_all.fields)
        /\ Len(use_all.mut_field_assignments) = Len(use_all.mut_fields)
        /\ \A k \in 1..Len(use_all.fields) :
              use_all.field_assignments[k].name = use_all.fields[k].name
        /\ \A k \in 1..Len(use_all.mut_fields) :
              use_all.mut_field_assignments[k].name = use_all.mut_fields[k].name
        /\ \A t \in Fields :
              LET n == field_info[t].name
                  role == field_info[t].field_type
                  imm == EntriesOf(use_all.fields, n)
                  mut == EntriesOf(use_all.mut_fields, n)
              IN  /\ role = "Tail" =>
                        /\ Cardinality(imm) = 1 /\ Cardinality(mut) = 1
                        /\ \A k \in imm :
                              /\ use_all.fields[k] = View(field_info[t], "", FALSE, "field")
                              /\ use_all.field_assignments[k].expr = "ref"
                              /\ use_all.field_assignments[k].of = n
                        /\ \A k \in mut :
                              /\ use_all.mut_fields[k] = View(field_info[t], "", TRUE, "field")
                              /\ use_all.mut_field_assignments[k].expr = "ref_mut"
                              /\ use_all.mut_field_assignments[k].of = n
                  /\ role = "Borrowed" =>
                        /\ Cardinality(imm) = 1 /\ mut = {}
                        /\ \A k \in imm :
                              /\ use_all.fields[k]
                                    = View(field_info[t], "_contents", FALSE, "contents")
                              /\ use_all.field_assignments[k].expr = "deref"
                              /\ use_all.field_assignments[k].of = n
                  /\ role = "BorrowedMut" => imm = {} /\ mut = {}

\* generated views of a struct with a field of each role: two entries in the
\* immutable view, one in the mutable view
C11_Witness ==
    /\ output
    /\ Len(use_all.fields) = 2
    /\ Len(use_all.mut_fields) = 1
    /\ FieldsOfRole("BorrowedMut") # {}
    /\ FieldsOfRole("Borrowed") # {}

\* ---------------------------------------------------------------- C12
\* C12: into_heads returns a Heads whose fields are exactly the fields without
\* borrow requests, whatever their role, each with the value it had in the
\* struct that was consumed; when it returns, every field with borrow requests
\* has been dropped; no statement of it uses a field that was moved before.
C12_IntoHeadsReturnsHeads ==
    /\ heads_ret.kind # "UseOfMovedValue"
    /\ heads_ret.kind = "Ok" =>
          /\ DOMAIN heads_ret.fields = HeadNameSet
          /\ \A n \in HeadNameSet : heads_ret.fields[n] = ret.fields[n]
          /\ \A n \in DependentNameSet : aggregate[n] = "dropped"
          /\ \A n \in HeadNameSet : aggregate[n] = "moved"
          /\ {into_heads_fn.head_fields[k].name :
                 k \in 1..Len(into_heads_fn.head_fields)} = HeadNameSet

\* into_heads returned the heads of a struct with a head that is borrowed
\* mutably and was written, a head that nothing borrows, and a dependent field
C12_Witness ==
    /\ heads_ret.kind = "Ok"
    /\ \E i \in Fields : IsHead(i) /\ field_info[i].field_type = "BorrowedMut"
                         /\ heads_ret.fields[field_info[i].name] = Written
    /\ \E i \in Fields : IsHead(i) /\ field_info[i].field_type = "Tail"
    /\ DependentNameSet # {}

\* ---------------------------------------------------------------- C13
TeardownPos(n) == CHOOSE k \in 1..Len(teardown) : teardown[k].field = n
TornDown(n) == \E k \in 1..Len(teardown) : teardown[k].field = n

\* C13: into_heads processes the fields one by one in storage order (the
\* reverse of the declaration order); each field is dropped or moved out
\* exactly once; a field with borrow requests is dropped, and before any field
\* it borrows is dropped or moved out.
C13_TeardownOrder ==
    hip > 0 =>
        /\ Len(teardown) <= Len(actual_fields)
        /\ \A k \in 1..Len(teardown) :
              /\ teardown[k].field = actual_fields[k].name
              /\ teardown[k].field = field_info[Len(field_info) + 1 - k].name
              /\ teardown[k].op = IF teardown[k].field \in DependentNameSet
                                  THEN "drop" ELSE "move"
        /\ heads_ret.kind = "none" => Len(teardown) = hip - 1
        /\ \A j, k \in 1..Len(teardown) :
              teardown[j].field = teardown[k].field => j = k
        /\ \A n \in DOMAIN aggregate : aggregate[n] # "live" <=> TornDown(n)
        /\ \A r \in Requests :
              TornDown(field_info[r.to].name) =>
                 /\ TornDown(field_info[r.from].name)
                 /\ TeardownPos(field_info[r.from].name)
                       < TeardownPos(field_info[r.to].name)
        /\ heads_ret.kind = "Ok" => Len(teardown) = Len(field_info)

\* into_heads has dropped a field that borrows a field which itself borrows,
\* and has not reached the heads yet
C13_Witness ==
    /\ hip = 3
    /\ Len(teardown) = 2
    /\ teardown[1].op = "drop" /\ teardown[2].op = "drop"
    /\ \E r \in Requests :
          /\ field_info[r.from].name = teardown[1].field
          /\ field_info[r.to].name = teardown[2].field

\* ---------------------------------------------------------------- C14
\* the builder struct of the constructor definition d mirrors the parameters
\* of the constructor: one field per parameter, in declaration order, with
\* the parameter's name and shape (a value for a field without borrow
\* requests, a callback for a field with them), forwarded in that order
BuilderMirrors(d) ==
    /\ Len(d.params) = Len(field_info)
    /\ Len(d.builder_struct_fields) = Len(d.params)
    /\ Len(d.builder_struct_field_names) = Len(d.params)
    /\ \A i \in 1..Len(d.params) :
          /\ d.params[i].field = field_info[i].name
          /\ d.builder_struct_fields[i].name = d.params[i].name
          /\ d.builder_struct_fields[i].arg = d.params[i].arg
          /\ (d.params[i].arg.kind = "Plain") <=> IsHead(i)
          /\ (d.params[i].arg.kind = "TraitBound") <=> ~IsHead(i)
          /\ d.builder_struct_field_names[i] = d.params[i].name

\* the callbacks the caller wrote for the builders of the fields ns
CallbacksOf(ns) ==
    [k \in 1..Len(ns) |-> Callback(builder_name(field_info[IndexOf(ns[k])]))]

\* the run in progress received what a direct call of the constructor variant
\* with the caller's arguments receives, and has invoked the callbacks that
\* belong to the fields whose builder statements ran, in declaration order
RunsAs(variant) ==
    /\ call = variant
    /\ ret.kind \notin {"Mismatch", "Unbound"}
    /\ args = given
    /\ args = BoundValues(variant, Actuals(variant, given))
    /\ builders = BoundBuilders(variant, Actuals(variant, given))
    /\ \A n \in DOMAIN builders : builders[n] = Callback(n)
    /\ Len(invoked) <= Len(DependentNames)
    /\ invoked = SubSeq(DependentNames, 1, Len(invoked))
    /\ called = CallbacksOf(invoked)
    /\ ret.kind = "Ok" =>
          /\ invoked = DependentNames
          /\ DOMAIN ret.fields = {field_info[i].name : i \in Fields}
          /\ ret.fields = locals

\* C14: the plain builder has one field per argument of new, in declaration
\* order and of the same shape, and build() forwards them by position in
\* that order to new; so a run started by build() and a run started by new()
\* with equal arguments bind the same values and callbacks to the same
\* parameters, invoke the same callbacks in the same order and return the
\* struct made of the same bindings.
C14_BuildDelegatesToNew ==
    /\ (constructor_def # NoConstructor /\ call = "none") =>
          /\ BuilderMirrors(constructor_def)
          /\ constructor_def.build_fns = <<[name |-> "build", calls |-> "new"]>>
    /\ via = "build" => RunsAs("new")
    /\ (via = "direct" /\ call = "new") => RunsAs("new")

\* build() returned a struct after two callbacks were invoked
C14_Witness ==
    /\ via = "build"
    /\ ret.kind = "Ok"
    /\ Len(called) = 2
    /\ called[1] # called[2]

\* ---------------------------------------------------------------- C15
\* C15: the fallible builder mirrors the arguments of try_new and
\* try_new_or_recover; try_build() forwards to try_new and
\* try_build_or_recover() to try_new_or_recover, by position in declaration
\* order; so each runs as the constructor it forwards to runs on equal
\* arguments: the same callbacks are invoked in the same order up to the
\* first failure, and the outcome is the struct, or the error alone for
\* try_build, or the error with all the head fields for
\* try_build_or_recover.
C15_TryBuildDelegates ==
    /\ (try_constructor_def # NoConstructor /\ call = "none") =>
          /\ BuilderMirrors(try_constructor_def)
          /\ {<<f.name, f.calls>> : f \in Range(try_constructor_def.build_fns)}
                = {<<"try_build", "try_new">>,
                   <<"try_build_or_recover", "try_new_or_recover">>}
    /\ \A variant \in {"try_new", "try_new_or_recover"} :
          (via = "direct" /\ call = variant) => RunsAs(variant)
    /\ via = "try_build" =>
          /\ RunsAs("try_new")
          /\ cb.kind = "Err" <=> ret.kind = "Err"
          /\ ret.kind = "Err" => ret.err = cb.err /\ ret.fields = <<>>
          /\ ret.kind # "ErrHeads"
    /\ via = "try_build_or_recover" =>
          /\ RunsAs("try_new_or_recover")
          /\ cb.kind = "Err" <=> ret.kind = "ErrHeads"
          /\ ret.kind = "ErrHeads" =>
                /\ ret.err = cb.err
                /\ DOMAIN ret.fields = HeadNameSet
                /\ \A n \in HeadNameSet : ret.fields[n] = locals[n]
          /\ ret.kind # "Err"

\* try_build_or_recover() returned the error of the second callback with the
\* head
C15_Witness ==
    /\ via = "try_build_or_recover"
    /\ ret.kind = "ErrHeads"
    /\ Len(called) = 2
    /\ cb.err = "E2"

\* ---------------------------------------------------------------- C16
\* the step that leaves the field loop for the checks of lib.rs:284-302
ChecksStep(p, q, pn) ==
    p = "fields" /\ q \notin {"fields", "attr"} /\ pn.msg # "InvalidSyntax"

C16_State ==
    /\ pc = "fields" =>
          (HasNonTail(field_info) <=> \E i \in Fields : ~IsHead(i))
    /\ panic.msg = "AllTail" =>
          /\ pc = "panicked"
          /\ Len(field_info) >= 2
          /\ \A i \in Fields : IsHead(i) /\ field_info[i].field_type = "Tail"
          /\ ~output
    /\ Accepted => \E i \in Fields : ~IsHead(i)

\* C16: a struct of at least two fields whose requests were all accepted is
\* rejected with the entirely-of-tail-fields panic if and only if no field
\* has a borrow request; the test the code makes (no field has a role other
\* than Tail) is true of exactly those structs.
C16_AllTailRejected ==
    /\ []C16_State
    /\ [][(ChecksStep(pc, pc', panic') /\ Len(field_info) >= 2) =>
             ((pc' = "panicked" /\ panic'.msg = "AllTail")
                 <=> \A i \in Fields : IsHead(i))]_vars

\* three fields, one of them with an empty borrows list, rejected
C16_Witness ==
    /\ pc = "panicked"
    /\ panic.msg = "AllTail"
    /\ Len(field_info) = MaxFields

\* ---------------------------------------------------------------- C17
Artifacts ==
    \/ constructor_def # NoConstructor
    \/ try_constructor_def # NoConstructor
    \/ users # <<>>
    \/ use_all # NoUseAll
    \/ into_heads_fn # NoIntoHeads
    \/ output

C17_State ==
    /\ Len(field_info) < 2 =>
          /\ pc \in {"fields", "attr", "panicked"}
          /\ ~Artifacts
          /\ ~LaidOut
    /\ panic.msg = "TooFewFields" => pc = "panicked" /\ Len(field_info) < 2

\* C17: a struct with no field or with one field is rejected, with the
\* at-least-2-fields panic when its field (if any) was read without a panic:
\* the expansion never reaches the reordering or a synthesizer with fewer
\* than two fields.
C17_TooFewFieldsRejected ==
    /\ []C17_State
    /\ [][(ChecksStep(pc, pc', panic') /\ Len(field_info) < 2) =>
             (pc' = "panicked" /\ panic'.msg = "TooFewFields")]_vars

\* a struct of one field is rejected
C17_Witness ==
    /\ pc = "panicked"
    /\ panic.msg = "TooFewFields"
    /\ Len(field_info) = 1

\* ---------------------------------------------------------------- C18
InDeclarationOrder ==
    /\ Len(actual_fields) = Len(field_info)
    /\ \A i \in Fields : actual_fields[i].name = field_info[i].name

C18_State ==
    /\ (panic # NoPanic) <=> (pc = "panicked")
    /\ pc \in {"fields", "attr", "panicked"} =>
          /\ ~Artifacts
          /\ InDeclarationOrder
    /\ (Artifacts \/ LaidOut) =>
          /\ panic = NoPanic
          /\ borrows = <<>>
          /\ Len(field_info) >= 2
          /\ \E i \in Fields : ~IsHead(i)
          /\ \A r \in Requests : r.to < r.from
          /\ \A t \in Fields : field_info[t].field_type = RoleFromRequests(t)

\* C18: every borrow request of every field, the two-field minimum and the
\* at-least-one-borrow test are checked before the fields are reordered and
\* before a constructor, builder, accessor or Heads is synthesized; a failed
\* check ends the expansion there: nothing was produced before it and no step
\* follows it.
C18_AllOrNothing ==
    /\ []C18_State
    /\ [][pc # "panicked"]_vars

\* the third field's request was refused after the first two fields were
\* read
C18_Witness ==
    /\ pc = "panicked"
    /\ panic.msg \in RequestPanics
    /\ Len(field_info) = 2
    /\ Requests # {}
    /\ ~Artifacts

\* ---------------------------------------------------------------- C19
NonTailNameSet ==
    {field_info[i].name : i \in {j \in Fields : field_info[j].field_type # "Tail"}}
\* the names of the fields the field called n requests
TargetsOf(n) ==
    {field_info[b.index].name : b \in Range(field_info[IndexOf(n)].borrows)}
\* the bodies of the constructors generated so far (a run of a constructor
\* leaves them as they are, so they are examined before the call)
Bodies ==
    (IF constructor_def # NoConstructor THEN {constructor_def.code} ELSE {})
    \cup (IF try_constructor_def # NoConstructor
          THEN {try_constructor_def.code, try_constructor_def.or_recover_code}
          ELSE {})
\* the reference to a field is made by the statement that follows the one
\* binding it (for a field without requests, a parameter, by the statement at
\* its place in declaration order), for the non-Tail fields and no others
ReferenceFollowsBinding(B) ==
    /\ \A k, l \in 1..Len(B) :
          k < l => IndexOf(B[k].field) <= IndexOf(B[l].field)
    /\ \A k \in 1..Len(B) :
          /\ B[k].op = "ref" =>
                /\ B[k].field \in NonTailNameSet
                /\ B[k].mutable
                      <=> field_info[IndexOf(B[k].field)].field_type = "BorrowedMut"
                /\ \/ IsHead(IndexOf(B[k].field))
                   \/ k > 1 /\ B[k - 1].op = "call" /\ B[k - 1].field = B[k].field
          /\ (B[k].op = "call" /\ B[k].field \in NonTailNameSet) =>
                k < Len(B) /\ B[k + 1].op = "ref" /\ B[k + 1].field = B[k].field
    /\ \A n \in NonTailNameSet :
          Cardinality({k \in 1..Len(B) : B[k].op = "ref" /\ B[k].field = n}) = 1

C20_SuccessfulConstruction ==
    /\ call = "none" =>
          \A B \in Bodies :
             \A k, l \in 1..Len(B) :
                k < l => IndexOf(B[k].field) <= IndexOf(B[l].field)
    /\ call # "none" =>
          /\ \A j, k \in 1..Len(invoked) : invoked[j] = invoked[k] => j = k
          /\ Range(invoked) \subseteq DependentNameSet
          /\ \A j, k \in 1..Len(invoked) :
                j < k => IndexOf(invoked[j]) < IndexOf(invoked[k])
          /\ DOMAIN locals = HeadNameSet \cup
                {n \in Range(invoked) : ret.kind \in {"none", "Ok"}
                                         \/ n # invoked[Len(invoked)]}
    /\ call = "new" => ret.kind \in {"none", "Ok"}
    /\ ret.kind = "Ok" =>
          /\ ip = Len(Body(call)) + 1
          /\ invoked = DependentNames
          /\ Len(called) = Cardinality(DependentNameSet)
          /\ \A j, k \in 1..Len(called) : called[j] = called[k] => j = k
          /\ DOMAIN ret.fields = {field_info[i].name : i \in Fields}
          /\ Def(call).field_names = [i \in Fields |-> field_info[i].name]
          /\ \A n \in DependentNameSet : ret.fields[n] = locals[n]

\* new returned a struct after it invoked two builders
C20_Witness ==
    /\ call = "new"
    /\ ret.kind = "Ok"
    /\ Len(invoked) = 2
    /\ IsHead(1)

\* ---------------------------------------------------------------- C21
\* the parameters of a generated constructor, once it is generated
ParamsOf(d) == IF d = NoConstructor THEN <<>> ELSE d.params
\* an argument type with its return type left out
Unreturned(arg) == [arg EXCEPT !.ret = "none"]

\* the arguments of the constructor d have the shape the borrow requests
\* give them, and its builders return return_type
ArgumentShape(d, return_type) ==
    \A i \in 1..Len(ParamsOf(d)) :
       LET f == field_info[i]
           a == d.params[i].arg
       IN  /\ Len(d.params) = Len(field_info)
           /\ d.params[i].field = f.name
           /\ (a.kind = "Plain") <=> (Len(f.borrows) = 0)
           /\ a.kind \in {"Plain", "TraitBound"}
           /\ a.typ = f.typ
           /\ a.kind = "Plain" =>
                 a.params = <<>> /\ a.trait = "none" /\ a.ret = "none"
           /\ a.kind = "TraitBound" =>
                 /\ a.trait = "FnOnce"
                 /\ a.ret = return_type
                 /\ Len(a.params) = Len(f.borrows)
                 /\ \A k \in 1..Len(f.borrows) :
                       /\ a.params[k].deref_of =
                             field_info[f.borrows[k].index].typ
                       /\ a.params[k].mutable <=> f.borrows[k].mutable

\* C21: the constructor argument of a field is its plain declared type
\* exactly when the field has no borrow requests; otherwise it is an FnOnce
\* bound with one parameter per borrow request, in request order, the k-th
\* being a reference to the dereferenced contents of the target of request
\* k, mutable exactly when request k is mutable; new and try_new take the
\* same arguments except that a builder of new returns the field type and a
\* builder of try_new a Result of it.
C21_ArgumentShape ==
    /\ ArgumentShape(constructor_def, "Value")
    /\ ArgumentShape(try_constructor_def, "Result")
    /\ try_constructor_def # NoConstructor =>
          \A i \in Fields :
             LET p == constructor_def.params[i]
                 q == try_constructor_def.params[i]
             IN  /\ [p EXCEPT !.arg = Unreturned(@)]
                       = [q EXCEPT !.arg = Unreturned(@)]
                 /\ p.arg.kind = "Plain" => p.arg = q.arg

\* the third field borrows one field mutably and then another one immutably
C21_Witness ==
    /\ try_constructor_def # NoConstructor
    /\ Len(field_info) = 3
    /\ Len(field_info[3].borrows) = 2
    /\ field_info[3].borrows[1].mutable
    /\ ~field_info[3].borrows[2].mutable
    /\ field_info[3].borrows[1].index # field_info[3].borrows[2].index

\* ---------------------------------------------------------------- C22
\* the diagnostic a borrow request deserves: known says that its name is a
\* field declared before the requesting one, role is the role of that field
\* when the request is processed
Diagnostic(known, mutable, role) ==
    IF ~known THEN "UnknownIdentifier"
    ELSE IF mutable /\ role = "Borrowed" THEN "PreviouslyBorrowedImmutably"
    ELSE IF mutable /\ role = "BorrowedMut" THEN "MutablyMoreThanOnce"
    ELSE IF ~mutable /\ role = "BorrowedMut" THEN "PreviouslyBorrowedMutably"
    ELSE "none"
\* the requests processed before r: those of the fields declared before the
\* requesting one, and those before it in the same list
Before(r) ==
    {q \in Requests : q.from < r.from \/ (q.from = r.from /\ q.at < r.at)}
\* the role a set of requests to one field gives it
RoleGivenBy(S) ==
    IF S = {} THEN "Tail"
    ELSE IF \E q \in S : q.mutable THEN "BorrowedMut"
    ELSE "Borrowed"

\* C22: the expansion aborts at the first borrow request, in processing order
\* (fields in declaration order, requests in list order), that deserves a
\* diagnostic, and with that diagnostic: unknown identifier for a name that
\* is not a field declared before; immutable-then-mutable for a mutable
\* request to a Borrowed field; double mutable for a mutable request to a
\* BorrowedMut field; mutable-then-immutable for an immutable request to a
\* BorrowedMut field; the panic names the requested field.  Every request
\* processed before it deserved none.
C22_FirstViolationReported ==
    /\ \A r \in Requests :
          Diagnostic(r.to \in 1..(r.from - 1), r.mutable,
                     RoleGivenBy({q \in Before(r) : q.to = r.to})) = "none"
    /\ (pc = "panicked" /\ panic.msg \in RequestPanics) =>
          /\ NameToken
          /\ panic.arg = token.text
          /\ panic.msg =
                Diagnostic(DeclaredBefore(token.text), borrow_mut,
                           IF DeclaredBefore(token.text)
                           THEN field_info[IndexOf(token.text)].field_type
                           ELSE "none")
          /\ DeclaredBefore(token.text) =>
                field_info[IndexOf(token.text)].field_type
                   = RoleGivenBy(RequestsTo(IndexOf(token.text)))
    /\ (pc = "attr" /\ NameToken) =>
          /\ borrows # <<>>
          /\ field_info[borrows[Len(borrows)].index].name = token.text

\* the third field borrows the second one and then asks for the first one
\* mutably, which the second field borrows immutably
C22_Witness ==
    /\ pc = "panicked"
    /\ panic.msg = "PreviouslyBorrowedImmutably"
    /\ Len(field_info) = 2
    /\ Len(borrows) = 1
    /\ panic.arg = field_info[1].name

\* ---------------------------------------------------------------- C23
\* a step that accepts a borrow request
AcceptsRequest == pc = "attr" /\ pc' = "attr" /\ Len(borrows') = Len(borrows) + 1
C23_Step ==
    /\ AcceptsRequest =>
          LET t == borrows'[Len(borrows')].index
          IN  /\ t \in Fields
              /\ field_info[t].name = token'.text
              /\ borrows' = Append(borrows, BorrowRequest(t, borrow_mut))
              /\ Len(field_info') = Len(field_info)
              /\ \A i \in Fields \ {t} : field_info'[i] = field_info[i]
              /\ field_info'[t].name = field_info[t].name
              /\ field_info'[t].typ = field_info[t].typ
              /\ field_info'[t].borrows = field_info[t].borrows
              /\ field_info'[t].field_type =
                    IF borrow_mut THEN "BorrowedMut" ELSE "Borrowed"
    /\ (pc = "attr" /\ ~AcceptsRequest /\ pc' # "fields") =>
          field_info' = field_info /\ borrows' = borrows
    /\ field_info' # field_info =>
          \/ AcceptsRequest
          \/ /\ pc \in {"fields", "attr"}
             /\ pc' = "fields"
             /\ Len(field_info') = Len(field_info) + 1
             /\ \A i \in Fields : field_info'[i] = field_info[i]
             /\ field_info'[Len(field_info')].field_type = "Tail"
             /\ field_info'[Len(field_info')].borrows = borrows
    /\ pc \notin {"fields", "attr"} => field_info' = field_info

\* C23: a step that accepts a borrow request changes only the role of the
\* requested field and appends one entry to the borrow list of the field
\* being read; the name, type and borrow list of the requested field and
\* every other field descriptor are unchanged.  A descriptor is created once,
\* when its field has been read, and once the fields are validated no step
\* of the expansion (layout, constructors, builders, accessors, into_heads)
\* changes any descriptor.
C23_FrameOfClassification == [][C23_Step]_vars

\* the third field has just been granted the first field, which the second
\* field borrows too
C23_Witness ==
    /\ pc = "attr"
    /\ Len(field_info) = 2
    /\ field_info[2].borrows = <<BorrowRequest(1, FALSE)>>
    /\ borrows = <<BorrowRequest(2, TRUE), BorrowRequest(1, FALSE)>>
    /\ field_info[2].field_type = "BorrowedMut"

\* ---------------------------------------------------------------- C24
\* the places of the body B where the reference to the field called n is
\* made, and the <statement, argument> places where it is handed to a builder
MadeAt(B, n) == {k \in 1..Len(B) : B[k].op = "ref" /\ B[k].field = n}
HandedAt(B, n) ==
    {<<k, j>> \in (1..Len(B)) \X (1..MaxBorrows) :
        /\ B[k].op = "call"
        /\ j <= Len(B[k].builder_args)
        /\ B[k].builder_args[j] = Ident(n, "_illegal_static_reference")}
\* the builders invoked so far that were handed the reference to n, one
\* entry per argument
HandedTo(n) ==
    {<<k, j>> \in (1..Len(invoked)) \X (1..MaxBorrows) :
        /\ j <= Len(field_info[IndexOf(invoked[k])].borrows)
        /\ field_info[field_info[IndexOf(invoked[k])].borrows[j].index].name = n}

\* C24: in every accepted struct the kind of reference a constructor makes
\* to a field (mutable for BorrowedMut, shared for Borrowed) is the kind
\* every request to the field asks for: a request is mutable exactly when
\* its target is BorrowedMut; a BorrowedMut field is the target of exactly
\* one request of the whole struct; so every constructor body makes one
\* reference to it and hands it to one builder as one argument, which the
\* builder's bound takes as a mutable one, and in a run a mutable reference
\* is handed over at most once.
C24_ReferenceKindAgrees ==
    /\ (Accepted /\ call = "none") =>
          /\ \A r \in Requests :
                r.mutable <=> field_info[r.to].field_type = "BorrowedMut"
          /\ \A t \in Fields :
                field_info[t].field_type = "BorrowedMut"
                   => Cardinality(RequestsTo(t)) = 1
          /\ \A B \in Bodies : \A t \in Fields :
                LET n == field_info[t].name
                IN  /\ \A k \in MadeAt(B, n) :
                          B[k].mutable <=> field_info[t].field_type = "BorrowedMut"
                    /\ Cardinality(HandedAt(B, n)) = Cardinality(RequestsTo(t))
                    /\ field_info[t].field_type = "BorrowedMut" =>
                          /\ Cardinality(MadeAt(B, n)) = 1
                          /\ Cardinality(HandedAt(B, n)) = 1
          /\ \A d \in {constructor_def, try_constructor_def} :
                \A i \in 1..Len(ParamsOf(d)) :
                   \A k \in 1..Len(d.params[i].arg.params) :
                      d.params[i].arg.params[k].mutable
                         <=> field_info[field_info[i].borrows[k].index].field_type
                                = "BorrowedMut"
    /\ call # "none" =>
          \A n \in DOMAIN refs :
             /\ refs[n] <=> field_info[IndexOf(n)].field_type = "BorrowedMut"
             /\ refs[n] => Cardinality(HandedTo(n)) <= 1

\* the builder of the second field was handed the only reference to the
\* first field, a mutable one, and the builder of the third field two shared
\* references to the second field
C24_Witness ==
    /\ call # "none"
    /\ Len(invoked) = 2
    /\ field_info[1].field_type = "BorrowedMut"
    /\ field_info[2].field_type = "Borrowed"
    /\ Cardinality(HandedTo(field_info[1].name)) = 1
    /\ Cardinality(HandedTo(field_info[2].name)) = 2

\* ---------------------------------------------------------------- C25
\* a step that processes a request for a field declared before
RequestsField(t) ==
    /\ pc = "attr"
    /\ ~waiting_for_comma
    /\ token'.kind = "Ident"
    /\ token'.text = field_info[t].name
C25_Step ==
    /\ Len(field_info') >= Len(field_info)
    /\ \A t \in Fields :
          LET old == field_info[t].field_type
              new == field_info'[t].field_type
          IN  /\ \/ new = old
                 \/ old = "Tail" /\ new \in {"Borrowed", "BorrowedMut"}
              /\ (RequestsField(t) /\ old = "Tail") =>
                    /\ pc' = "attr"
                    /\ new = IF borrow_mut THEN "BorrowedMut" ELSE "Borrowed"
              /\ (RequestsField(t) /\ old = "Borrowed" /\ ~borrow_mut) =>
                    pc' = "attr" /\ new = "Borrowed"
              /\ (RequestsField(t) /\ old = "Borrowed" /\ borrow_mut) =>
                    pc' = "panicked" /\ new = "Borrowed"
              /\ (RequestsField(t) /\ old = "BorrowedMut") =>
                    pc' = "panicked" /\ new = "BorrowedMut"
    /\ Len(field_info') > Len(field_info) =>
          field_info'[Len(field_info')].field_type = "Tail"

\* C25: every field starts as Tail, and in every step of the expansion the
\* role of a field stays what it is or moves from Tail to Borrowed or to
\* BorrowedMut; an immutable request to a Borrowed field leaves it Borrowed;
\* a request that would move a field between Borrowed and BorrowedMut, in
\* either direction, aborts the expansion and leaves the role as it is; no
\* field returns to Tail.
C25_RolesMonotone == [][C25_Step]_vars

\* the first field, Borrowed already, has just been requested immutably once
\* more
C25_Witness ==
    /\ pc = "attr"
    /\ NameToken
    /\ token.text = field_info[1].name
    /\ field_info[1].field_type = "Borrowed"
    /\ Cardinality(RequestsTo(1)) = 2
    /\ Len(borrows) = 1

\* ---------------------------------------------------------------- C26
\* a sequence without repetitions
Injective(q) == \A k, l \in 1..Len(q) : q[k] = q[l] => k = l
\* the fields of the Heads type
HeadsTypeFields == [k \in 1..Len(into_heads_fn.head_fields) |->
                       into_heads_fn.head_fields[k].name]
\* the fields into_heads moves out of self
MovedOut ==
    LET moves == SelectSeq(into_heads_fn.code, LAMBDA stmt : stmt.op = "move")
    IN  [k \in 1..Len(moves) |-> moves[k].field]
\* the Heads literals of try_new_or_recover
RecoveredLiterals ==
    {try_constructor_def.or_recover_code[k].heads :
        k \in {j \in 1..Len(try_constructor_def.or_recover_code) :
                  try_constructor_def.or_recover_code[j].op = "call"}}

\* C26: for every accepted struct the fields of the Heads type, the fields
\* into_heads moves out of self and puts in the Heads it returns, and the
\* fields of every Heads literal of try_new_or_recover are the same set, each
\* field once: the fields without borrow requests.  So the Heads that
\* try_new_or_recover returns with an error, like the one into_heads returns,
\* has a value for every field of the Heads type.
C26_HeadsAgree ==
    /\ pc = "generated" =>
          /\ Range(HeadsTypeFields) = HeadNameSet
          /\ Range(MovedOut) = HeadNameSet
          /\ Range(into_heads_fn.field_names) = HeadNameSet
          /\ Injective(HeadsTypeFields)
          /\ Injective(MovedOut)
          /\ Injective(into_heads_fn.field_names)
          /\ RecoveredLiterals # {}
          /\ \A heads \in RecoveredLiterals :
                Range(heads) = Range(HeadsTypeFields) /\ Injective(heads)
          /\ \A h \in Range(into_heads_fn.head_fields) :
                h.typ = field_info[IndexOf(h.name)].typ
    /\ ret.kind = "ErrHeads" => DOMAIN ret.fields = Range(HeadsTypeFields)
    /\ heads_ret.kind = "Ok" => DOMAIN heads_ret.fields = Range(HeadsTypeFields)

\* try_new_or_recover returned the two heads of a struct whose second field
\* borrows the first, after the builder of the second field failed
C26_Witness ==
    /\ ret.kind = "ErrHeads"
    /\ Len(field_info) = 3
    /\ HeadNameSet = {field_info[1].name, field_info[3].name}
    /\ field_info[1].field_type = "BorrowedMut"
    /\ Len(into_heads_fn.head_fields) = 2

\* ---------------------------------------------------------------- C27
IsName(tok) == tok.kind = "Ident" /\ tok.text # "mut"
IsMut(tok) == tok.kind = "Ident" /\ tok.text = "mut"
IsComma(tok) == tok.kind = "Punct" /\ tok.text = ","
\* a step that reads one token of a borrows list; token is the token read
\* before it in the same list (none at the start of the list), token' the
\* one it reads
ReadsToken == pc = "attr" /\ pc' \in {"attr", "panicked"}
C27_State ==
    pc = "attr" =>
       /\ borrow_mut <=> IsMut(token)
       /\ waiting_for_comma <=> IsName(token)
       /\ token = NoToken \/ IsName(token) \/ IsMut(token) \/ IsComma(token)
C27_Step ==
    ReadsToken =>
       /\ (IsName(token) /\ token'.kind = "Ident") =>
             pc' = "panicked" /\ panic' = Panic("ExpectedComma", token'.text)
       /\ (IsMut(token) /\ IsMut(token')) =>
             pc' = "panicked" /\ panic' = Panic("DoubleMut", "")
       /\ (IsComma(token') /\ ~IsName(token)) =>
             pc' = "panicked" /\ panic' = Panic("ExtraComma", "")
       /\ (token'.kind = "Punct" /\ ~IsComma(token')) =>
             pc' = "panicked" /\ panic'.msg = "UnexpectedPunctuation"
       /\ token'.kind \notin {"Ident", "Punct"} =>
             pc' = "panicked" /\ panic'.msg = "UnexpectedToken"
       /\ pc' = "panicked" => borrows' = borrows /\ borrow_mut' = borrow_mut
       /\ pc' = "attr" =>
             /\ IsName(token') =>
                   /\ ~IsName(token)
                   /\ Len(borrows') = Len(borrows) + 1
                   /\ SubSeq(borrows', 1, Len(borrows)) = borrows
                   /\ borrows'[Len(borrows')].mutable <=> IsMut(token)
                   /\ field_info[borrows'[Len(borrows')].index].name = token'.text
                   /\ ~borrow_mut'
             /\ IsMut(token') =>
                   ~IsName(token) /\ ~IsMut(token) /\ borrows' = borrows
             /\ IsComma(token') => IsName(token) /\ borrows' = borrows
             /\ IsName(token') \/ IsMut(token') \/ IsComma(token')

\* C27: the scanner of a borrows list rejects a field name or a `mut` that
\* follows a field name without a comma between, a `mut` that follows a
\* `mut`, a comma that does not follow a field name, any punctuation other
\* than a comma and any token that is neither an identifier nor punctuation;
\* so in what it accepts a field name is followed by nothing or a comma, a
\* comma by nothing, a `mut` or a field name, and a `mut` by nothing or a
\* field name.  Every field name it accepts appends exactly one request,
\* mutable exactly when the token before it is `mut` (the only place a `mut`
\* since the field name before can be); the pending `mut` is cleared by the
\* field name and does not reach the next request.
C27_Scanner == []C27_State /\ [][C27_Step]_vars

\* `mut a, b` has been read: the second request is not mutable
C27_Witness ==
    /\ pc = "attr"
    /\ Len(field_info) = 2
    /\ field_info[2].borrows = <<>>
    /\ borrows = <<BorrowRequest(1, TRUE), BorrowRequest(2, FALSE)>>
    /\ IsName(token)

\* ---------------------------------------------------------------- C28
StructPanics == {"TooFewFields", "AllTail"}
C28_State ==
    /\ Len(field_info) = 0 => borrows = <<>>
    /\ Len(field_info) = 1 => field_info[1].borrows = <<>>
    /\ panic.msg = "TooFewFields" => Len(field_info) < 2 /\ Requests = {}
    /\ panic.msg = "AllTail" => Len(field_info) >= 2 /\ Requests = {}
    /\ panic.msg \in RequestPanics => IsName(token) /\ panic.arg = token.text
C28_Step ==
    /\ (panic = NoPanic /\ panic'.msg \in RequestPanics) => pc = "attr"
    /\ (panic = NoPanic /\ panic'.msg \in StructPanics) =>
          pc = "fields" /\ borrows = <<>>
    /\ ChecksStep(pc, pc', panic') =>
          IF Len(field_info) < 2
          THEN pc' = "panicked" /\ panic' = Panic("TooFewFields", "")
          ELSE IF \A i \in Fields : IsHead(i)
          THEN pc' = "panicked" /\ panic'.msg = "AllTail"
          ELSE pc' = "reverse" /\ panic' = NoPanic
    /\ (pc = "attr" /\ Len(field_info) = 0 /\ IsName(token')) =>
          pc' = "panicked" /\ panic' = Panic("UnknownIdentifier", token'.text)

\* C28: a borrow request is judged while its field is being read, before
\* the field count and the at-least-one-borrow test, which are made in this
\* order once every field has been read.  So a struct with fewer than two
\* fields and no borrow request is rejected with the at-least-2-fields panic
\* and never with the entirely-of-tail-fields one, and a borrow request of
\* the first field (so of the only field of a struct of one field) is
\* rejected with the unknown-identifier panic before either test.
C28_ErrorPrecedence == []C28_State /\ [][C28_Step]_vars

\* the only field of a struct asks for itself mutably
C28_Witness ==
    /\ pc = "panicked"
    /\ panic = Panic("UnknownIdentifier", Names[1])
    /\ Len(field_info) = 0
    /\ borrow_mut

====
